---------------------------- MODULE Spec2Model ----------------------------
(***************************************************************************)
(* A model of the client-side scripts of the portfolio website:            *)
(*   - main.js  (navigation menu, scroll effects, hero code animation,     *)
(*               name animation, theme preference, keyboard shortcuts)     *)
(*   - blog.js  (blog search, category filter, share/copy helpers)         *)
(*                                                                         *)
(* Every event handler and timer callback of the scripts is one action.    *)
(* The DOM is modelled by the parts of it the scripts read and write:      *)
(* child lists, class names, text contents, style.display, attributes.     *)
(* JavaScript's null is modelled by NULL; JavaScript indices are kept      *)
(* zero-based in the variables and shifted by one where a TLA+ sequence    *)
(* is indexed.  Strings the scripts index or search are sequences of       *)
(* one-character strings (UTF-16 code units).                              *)
(***************************************************************************)
EXTENDS Integers, Sequences, FiniteSets, TLC

VARIABLES
    \* ---- the document and its life cycle ----
    elements,             \* the elements of the page the scripts look up
    scrollMax,            \* scrollHeight - clientHeight of the document
    readyState,           \* "loading", "interactive" (DOMContentLoaded ran),
                          \* "complete" (load ran)
    \* ---- navigation menu, keyboard, scroll effects ----
    hamburgerActive,      \* hamburger has class 'active'
    navMenuActive,        \* navMenu has class 'active'
    bodyOverflow,         \* document.body.style.overflow
    errorEvents,          \* the functions a TypeError escaped from, each
                          \* reported to window's 'error' listener
    navbarScrolled,       \* navbar has class 'scrolled'
    activeLinks,          \* positions in NavLinks of the links of class 'active'
    scrollY,              \* window.scrollY
    scrollPending,        \* a scroll event is waiting to be dispatched
    lastScrollTime,       \* let lastScrollTime
    now,                  \* the value Date.now() returns
    progressWidth,        \* style.width of #scrollProgress, a percentage
    backToTopVisible,     \* #backToTop has class 'visible'
    activeElement,        \* document.activeElement
    \* ---- theme ----
    htmlTheme,            \* the data-theme attribute of body in the markup
    dataTheme,            \* the data-theme attribute of body
    localStorage,         \* the stored items, a set of <<key, value>>
    \* ---- blog search and category filter ----
    cardDisplay,          \* style.display of each blog card: "" or "none"
    cardFadeIn,           \* the cards of class 'fade-in'
    noResultsCount,       \* the elements of id noResultsMessage in the grid
    searchValue,          \* value of #blogSearch
    activeFilters,        \* positions of the .filter-btn of class 'active'
    \* ---- social sharing ----
    openedWindow,         \* the platform whose share page window.open got last
    clipboard,            \* the text on the system clipboard
    clipboardPending,     \* the writeText promises not yet settled
    notification,         \* the element of id copyNotification
    slideOutTimers,       \* pending 2000 ms timeouts of showCopyNotification
    hideTimers,           \* pending 300 ms timeouts of showCopyNotification
    console,              \* the messages written by console.error
    \* ---- contact form ----
    errorFields,          \* the form fields of class 'error'
    errorMessages,        \* the .error-message texts in each field's parent
    lastSubmit,           \* whether the last submit event was prevented
    \* ---- hero code animation (closure of initHeroCodeAnimation) ----
    codeDisplay,          \* child nodes of #hero-code-display
    lineIndex,            \* let lineIndex
    tokenIndex,           \* let tokenIndex
    charIndex,            \* let charIndex
    currentLineElement,   \* NULL, or the position of the line div in codeDisplay
    currentTokenSpan,     \* NULL, or the position of the span in the line div
    heroTimers,           \* pending setTimeout callbacks of this animation
    heroFault,            \* TRUE once a callback threw a TypeError
    \* ---- name animation (closure of initNameAnimation) ----
    nameDisplay,          \* child nodes of #hero-name-display
    nameTokenIndex,       \* let tokenIndex
    nameCharIndex,        \* let charIndex
    nameCurrentTokenSpan, \* NULL, or the position of the span in nameDisplay
    isDeleting,           \* let isDeleting
    nameTimers,           \* pending setTimeout callbacks of this animation
    \* ---- observers of the run (no variable of the scripts) ----
    hamburgerClicks,      \* the number of clicks on the hamburger so far
    otherInput,           \* TRUE once any other click or key press happened
    lastOp,               \* the last search or filter call and its argument
    lastToggled,          \* the theme the last toggleTheme call set
    reloaded              \* TRUE when the page was reloaded after that call

pageVars == <<elements, scrollMax, htmlTheme>>

themeVars == <<dataTheme, localStorage>>

blogVars == <<cardDisplay, cardFadeIn, noResultsCount, searchValue,
              activeFilters>>

menuVars == <<hamburgerActive, navMenuActive, bodyOverflow, errorEvents>>

scrollVars == <<navbarScrolled, activeLinks, scrollY, scrollPending,
                lastScrollTime, now, progressWidth, backToTopVisible>>

heroVars == <<codeDisplay, lineIndex, tokenIndex, charIndex,
              currentLineElement, currentTokenSpan, heroTimers, heroFault>>

nameVars == <<nameDisplay, nameTokenIndex, nameCharIndex,
              nameCurrentTokenSpan, isDeleting, nameTimers>>

shareVars == <<openedWindow, clipboard, clipboardPending, notification,
               slideOutTimers, hideTimers, console>>

formVars == <<errorFields, errorMessages, lastSubmit>>

contentVars == <<blogVars, shareVars, formVars>>

observerVars == <<hamburgerClicks, otherInput, lastOp, lastToggled, reloaded>>

vars == <<pageVars, readyState, menuVars, scrollVars, activeElement,
          themeVars, contentVars, heroVars, nameVars, observerVars>>

NULL == 0

-----------------------------------------------------------------------------
(***************************************************************************)
(* DOM nodes.  A node is a record; a child list is a sequence of nodes.    *)
(***************************************************************************)
Node(tag, className, text, children) ==
    [tag |-> tag, className |-> className, text |-> text, children |-> children]

\* createCursor(): a span of class 'cursor'
createCursor == Node("span", "cursor", << >>, << >>)

IsCursor(n) == n.tag = "span" /\ n.className = "cursor"

\* the child list without the cursor element
WithoutCursor(children) == SelectSeq(children, LAMBDA n : ~IsCursor(n))

\* the number of cursor elements among the first k children
CursorsBefore(children, k) ==
    Cardinality({j \in 1..(k - 1) : j <= Len(children) /\ IsCursor(children[j])})

\* position of the cursor in a child list, 0 when it is not a child
CursorPosition(children) ==
    IF \E j \in 1..Len(children) : IsCursor(children[j])
    THEN CHOOSE j \in 1..Len(children) : IsCursor(children[j])
    ELSE 0

InsertAt(s, k, e) == SubSeq(s, 1, k - 1) \o <<e>> \o SubSeq(s, k, Len(s))

RemoveAt(s, k) == SubSeq(s, 1, k - 1) \o SubSeq(s, k + 1, Len(s))

-----------------------------------------------------------------------------
(***************************************************************************)
(* THE DOCUMENT                                                            *)
(* The HTML pages are an input of the scripts.  A page is given by the     *)
(* elements it holds, its scroll range, its sections and its nav links.    *)
(***************************************************************************)
\* the value a missing attribute or storage item reads as
NoValue == "null"

\* the elements the scripts look up by id or selector
AllElements ==
    {"navbar", "hamburger", "navMenu", "scrollProgress", "backToTop",
     "themeToggle", "search", "hero-code-display", "hero-name-display",
     "contact-form", "email", "message", "form-groups", "blogSearch",
     "clearSearch", "blog-grid", "blog-cards", "filter-buttons",
     "share-buttons", "nested-sections", "clear-link"}

\* elements the scripts use without testing that they exist
CoreElements == {"navbar", "hamburger", "navMenu"}

Has(id) == id \in elements

\* section[id] elements in document order: offsetTop and offsetHeight in px
FlatSections ==
    << [id |-> "home",    offsetTop |-> 0,   offsetHeight |-> 300],
       [id |-> "about",   offsetTop |-> 300, offsetHeight |-> 300],
       [id |-> "contact", offsetTop |-> 600, offsetHeight |-> 300] >>

\* the sections of a page that lets them overlap and nests one in another:
\* 'contact' lies inside 'about', and nothing follows 'about'
NestedSections ==
    << [id |-> "home",    offsetTop |-> 0,   offsetHeight |-> 302],
       [id |-> "about",   offsetTop |-> 300, offsetHeight |-> 300],
       [id |-> "contact", offsetTop |-> 400, offsetHeight |-> 100] >>

\* document.querySelectorAll('section[id]')
Sections == IF Has("nested-sections") THEN NestedSections ELSE FlatSections

\* .nav-link anchors in document order.  An href "#x" is [hash |-> TRUE,
\* id |-> "x"], an href to another page is [hash |-> FALSE, id |-> ""].
\* All of them are children of navMenu.
NavLinks ==
    << [hash |-> TRUE,  id |-> "home"],
       [hash |-> TRUE,  id |-> "about"],
       [hash |-> FALSE, id |-> ""] >>

\* navbar.offsetHeight of the page, in px
NavbarHeight == 80

\* the height the a[href^="#"] listener takes for a page without navbar
DefaultNavbarHeight == 80

\* the positions the user scrolls to
ScrollStops == {0, 100, 101, 420, 501, 700}

\* Date.now() when the scripts run, and the model's clock step and horizon
PageLoadTime == 1000
TickMs == 50
MaxTime == 1200

-----------------------------------------------------------------------------
(***************************************************************************)
(* MOBILE MENU                                                             *)
(***************************************************************************)
\* the menu's classes and the body's overflow, with the errors the
\* listeners have let escape so far
Menu ==
    [hamburger |-> hamburgerActive,
     navMenu   |-> navMenuActive,
     overflow  |-> bodyOverflow,
     errors    |-> errorEvents]

MenuBecomes(m) ==
    /\ hamburgerActive' = m.hamburger
    /\ navMenuActive' = m.navMenu
    /\ bodyOverflow' = m.overflow
    /\ errorEvents' = m.errors

\* a property of null is read in function name: the TypeError ends the
\* listener and goes to window's 'error' listener
TypeError(m, name) == [m EXCEPT !.errors = @ \cup {name}]

\* mutant: the body's overflow is set on opening and left on closing
toggleMobileMenuKeepsOverflow(m) ==
    LET t == [m EXCEPT !.hamburger = ~@, !.navMenu = ~@]
    IN  [t EXCEPT !.overflow = IF t.navMenu THEN "hidden" ELSE @]

\* function toggleMobileMenu(): hamburger and navMenu are used untested
toggleMobileMenu(m) ==
    IF ~Has("hamburger") THEN TypeError(m, "toggleMobileMenu")
    ELSE IF ~Has("navMenu")
    THEN TypeError([m EXCEPT !.hamburger = ~@], "toggleMobileMenu")
    ELSE LET t == [m EXCEPT !.hamburger = ~@, !.navMenu = ~@]
         IN  [t EXCEPT !.overflow = IF t.navMenu THEN "hidden" ELSE ""]

\* the places a click can land: navMenu.contains(e.target) and
\* hamburger.contains(e.target)
ClickTargets ==
    {[inNavMenu |-> FALSE, inHamburger |-> TRUE],    \* the hamburger
     [inNavMenu |-> TRUE,  inHamburger |-> FALSE],   \* inside the menu
     [inNavMenu |-> FALSE, inHamburger |-> FALSE]}   \* anywhere else

OnHamburger == [inNavMenu |-> FALSE, inHamburger |-> TRUE]
InsideMenu  == [inNavMenu |-> TRUE,  inHamburger |-> FALSE]
Elsewhere   == [inNavMenu |-> FALSE, inHamburger |-> FALSE]

\* mutant: the outside-click handler does not exempt the hamburger
closeMobileMenuOnClickOutsideNoHamburger(m, target) ==
    IF ~target.inNavMenu
    THEN IF m.navMenu THEN toggleMobileMenu(m) ELSE m
    ELSE m

\* function closeMobileMenuOnClickOutside(e), the document's click
\* listener: navMenu.contains and, for a target outside the menu,
\* hamburger.contains are called untested
closeMobileMenuOnClickOutside(m, target) ==
    IF ~Has("navMenu") THEN TypeError(m, "closeMobileMenuOnClickOutside")
    ELSE IF target.inNavMenu THEN m
    ELSE IF ~Has("hamburger") THEN TypeError(m, "closeMobileMenuOnClickOutside")
    ELSE IF ~target.inHamburger /\ m.navMenu THEN toggleMobileMenu(m)
    ELSE m

\* mutant: a click on a nav link toggles the menu
closeMobileMenuOnNavClickToggles(m) == toggleMobileMenu(m)

\* function closeMobileMenuOnNavClick(): navMenu.classList is read untested
closeMobileMenuOnNavClick(m) ==
    IF ~Has("navMenu") THEN TypeError(m, "closeMobileMenuOnNavClick")
    ELSE IF m.navMenu THEN toggleMobileMenu(m)
    ELSE m

\* key presses: e.key, e.ctrlKey, e.metaKey
KeyEvents ==
    {[key |-> "Escape", ctrlKey |-> FALSE, metaKey |-> FALSE],
     [key |-> "k",      ctrlKey |-> TRUE,  metaKey |-> FALSE],
     [key |-> "k",      ctrlKey |-> FALSE, metaKey |-> TRUE],
     [key |-> "k",      ctrlKey |-> FALSE, metaKey |-> FALSE]}

\* function handleKeyboardShortcuts(e): the menu part
keyboardMenu(m, e) ==
    IF e.key # "Escape" THEN m
    ELSE IF ~Has("navMenu") THEN TypeError(m, "handleKeyboardShortcuts")
    ELSE IF m.navMenu THEN toggleMobileMenu(m)
    ELSE m

\* function handleKeyboardShortcuts(e): Ctrl/Cmd + K focuses #search
keyboardFocus(focus, e) ==
    IF (e.ctrlKey \/ e.metaKey) /\ e.key = "k"
    THEN IF Has("search") THEN "search" ELSE focus
    ELSE focus

-----------------------------------------------------------------------------
(***************************************************************************)
(* SCROLL EFFECTS AND SMOOTH SCROLLING                                     *)
(***************************************************************************)
\* const scrollThrottle = 100
scrollThrottle == 100

Clamp(x, lo, hi) == IF x < lo THEN lo ELSE IF x > hi THEN hi ELSE x

\* window.scrollTo({top}): the position the window ends at
scrollTo(top) == Clamp(top, 0, scrollMax)

\* function handleNavbarScroll(): navbar has 'scrolled' iff scrollY > 100
handleNavbarScroll(y) == y > 100

\* handleNavbarScroll() uses navbar.classList untested
handleNavbarScrollErrors(m) ==
    IF Has("navbar") THEN m ELSE TypeError(m, "handleNavbarScroll")

\* mutant: the first matching link of a section is not looked up
LinkOfSectionNone(sectionId) == 0

\* mutant: the listener waits for more than scrollThrottle ms
throttleOpenLater == now - lastScrollTime > scrollThrottle

\* the throttled scroll listener: runs handleNavbarScroll when at least
\* scrollThrottle ms passed since the run it last triggered
throttleOpen == now - lastScrollTime >= scrollThrottle

\* document.querySelector(`.nav-link[href="#${sectionId}"]`): the position
\* of the first such link, 0 when there is none
LinkOfSection(sectionId) ==
    LET hits == {k \in 1..Len(NavLinks) :
                    NavLinks[k].hash /\ NavLinks[k].id = sectionId}
    IN  IF hits = {} THEN 0 ELSE CHOOSE k \in hits : \A j \in hits : k <= j

\* function updateActiveNavLink(): the sections visited in document order,
\* from section i on, with 'active' the links marked so far
RECURSIVE updateActiveNavLinkFrom(_, _, _)
updateActiveNavLinkFrom(i, y, active) ==
    IF i > Len(Sections) THEN active
    ELSE LET section        == Sections[i]
             scrollPosition == y + 200
             inside == /\ scrollPosition >= section.offsetTop
                       /\ scrollPosition < section.offsetTop + section.offsetHeight
             link   == LinkOfSection(section.id)
         IN  updateActiveNavLinkFrom(i + 1, y,
                IF inside
                THEN IF link # 0 THEN {link} ELSE {}
                ELSE active)

updateActiveNavLink(y, active) == updateActiveNavLinkFrom(1, y, active)

\* function updateScrollProgress(): (scrollY / windowHeight) * 100 percent,
\* kept as the fraction num / den; nothing without the progress bar
updateScrollProgress(y, width) ==
    IF ~Has("scrollProgress") THEN width
    ELSE [num |-> y * 100, den |-> scrollMax]

\* function handleBackToTopButton(): 'visible' iff scrollY > 500
handleBackToTopButton(y, visible) ==
    IF ~Has("backToTop") THEN visible ELSE y > 500

\* document.getElementById(id) among the sections: its position, 0 if none
SectionById(id) ==
    LET hits == {i \in 1..Len(Sections) : Sections[i].id = id}
    IN  IF hits = {} THEN 0 ELSE CHOOSE i \in hits : \A j \in hits : i <= j

\* function smoothScrollToSection(e) followed by the listener of
\* a[href^="#"]: where the window scrolls to after a click on a link.  On
\* a page without navbar the second listener alone scrolls.
smoothScrollToSection(link, y) ==
    IF link.hash /\ SectionById(link.id) # 0
    THEN scrollTo(Sections[SectionById(link.id)].offsetTop
                    - (IF Has("navbar") THEN NavbarHeight
                                        ELSE DefaultNavbarHeight))
    ELSE y

\* smoothScrollToSection(e) reads navbar.offsetHeight untested
smoothScrollToSectionErrors(m, link) ==
    IF link.hash /\ SectionById(link.id) # 0 /\ ~Has("navbar")
    THEN TypeError(m, "smoothScrollToSection")
    ELSE m

\* the window moved from y to y2: a scroll event becomes pending
ScrolledTo(y2) ==
    /\ scrollY' = y2
    /\ scrollPending' = (scrollPending \/ y2 # scrollY)

\* everything outside the menu and the scroll effects stays as it is
NavFrame ==
    UNCHANGED <<pageVars, readyState, activeElement, themeVars, contentVars,
                heroVars, nameVars>>

\* a click on the hamburger: its own listener, then the document's
ClickHamburger ==
    /\ Has("hamburger")
    /\ MenuBecomes(closeMobileMenuOnClickOutside(toggleMobileMenu(Menu),
                                                 OnHamburger))
    /\ UNCHANGED scrollVars
    /\ NavFrame

\* a click on nav link k: closeMobileMenuOnNavClick, smoothScrollToSection,
\* the a[href^="#"] listener, then the document's listener
ClickNavLink(k) ==
    /\ MenuBecomes(closeMobileMenuOnClickOutside(
            smoothScrollToSectionErrors(closeMobileMenuOnNavClick(Menu),
                                        NavLinks[k]),
            IF Has("navMenu") THEN InsideMenu ELSE Elsewhere))
    /\ ScrolledTo(smoothScrollToSection(NavLinks[k], scrollY))
    /\ UNCHANGED <<navbarScrolled, activeLinks, lastScrollTime, now,
                   progressWidth, backToTopVisible>>
    /\ NavFrame

\* a click that only the document's listener handles: inside the menu but
\* on no link, or anywhere else on the page
ClickPage(target) ==
    /\ target \in {InsideMenu, Elsewhere}
    /\ target.inNavMenu => Has("navMenu")
    /\ MenuBecomes(closeMobileMenuOnClickOutside(Menu, target))
    /\ UNCHANGED scrollVars
    /\ NavFrame

\* a click on #backToTop: scrollToTop, then the document's listener
ClickBackToTop ==
    /\ Has("backToTop")
    /\ MenuBecomes(closeMobileMenuOnClickOutside(Menu, Elsewhere))
    /\ ScrolledTo(scrollTo(0))
    /\ UNCHANGED <<navbarScrolled, activeLinks, lastScrollTime, now,
                   progressWidth, backToTopVisible>>
    /\ NavFrame

\* a key press: handleKeyboardShortcuts
KeyDown(e) ==
    /\ MenuBecomes(keyboardMenu(Menu, e))
    /\ activeElement' = keyboardFocus(activeElement, e)
    /\ UNCHANGED <<pageVars, readyState, scrollVars, themeVars, contentVars,
                   heroVars, nameVars>>

\* the user scrolls the window to position y
UserScroll(y) ==
    /\ y \in ScrollStops /\ y <= scrollMax /\ y # scrollY
    /\ ScrolledTo(y)
    /\ UNCHANGED <<navbarScrolled, activeLinks, lastScrollTime, now,
                   progressWidth, backToTopVisible>>
    /\ UNCHANGED menuVars
    /\ NavFrame

\* the 'scroll' event is dispatched: the throttled navbar listener,
\* updateActiveNavLink, updateScrollProgress, handleBackToTopButton
ScrollEvent ==
    /\ scrollPending
    /\ scrollPending' = FALSE
    /\ navbarScrolled' = IF throttleOpen /\ Has("navbar")
                         THEN handleNavbarScroll(scrollY)
                         ELSE navbarScrolled
    /\ lastScrollTime' = IF throttleOpen /\ Has("navbar") THEN now
                         ELSE lastScrollTime
    /\ activeLinks' = updateActiveNavLink(scrollY, activeLinks)
    /\ progressWidth' = updateScrollProgress(scrollY, progressWidth)
    /\ backToTopVisible' = handleBackToTopButton(scrollY, backToTopVisible)
    /\ UNCHANGED <<scrollY, now>>
    /\ MenuBecomes(IF throttleOpen THEN handleNavbarScrollErrors(Menu)
                                   ELSE Menu)
    /\ NavFrame

\* time passes
Tick ==
    /\ now + TickMs <= MaxTime
    /\ now' = now + TickMs
    /\ UNCHANGED <<navbarScrolled, activeLinks, scrollY, scrollPending,
                   lastScrollTime, progressWidth, backToTopVisible>>
    /\ UNCHANGED menuVars
    /\ NavFrame

\* the menu when the scripts have run: closed
MenuStart ==
    [hamburger |-> FALSE, navMenu |-> FALSE, overflow |-> "", errors |-> {}]

\* the menu and the scroll effects when the scripts have run
NavInit ==
    /\ hamburgerActive = MenuStart.hamburger
    /\ navMenuActive = MenuStart.navMenu
    /\ bodyOverflow = MenuStart.overflow
    /\ errorEvents = MenuStart.errors
    /\ navbarScrolled = FALSE
    /\ activeLinks = {}
    /\ scrollY = 0
    /\ scrollPending = FALSE
    /\ lastScrollTime = 0
    /\ now = PageLoadTime
    /\ progressWidth = [num |-> 0, den |-> 0]
    /\ backToTopVisible = FALSE
    /\ activeElement = "body"

-----------------------------------------------------------------------------
(***************************************************************************)
(* THEME PREFERENCE                                                        *)
(***************************************************************************)
\* localStorage.getItem(key): the stored value, null without one
getItem(store, key) ==
    IF \E item \in store : item[1] = key
    THEN (CHOOSE item \in store : item[1] = key)[2]
    ELSE NoValue

\* localStorage.setItem(key, value)
setItem(store, key, value) ==
    {item \in store : item[1] # key} \cup {<<key, value>>}

\* what a || b takes for a: null and '' are falsy
Falsy(v) == v = NoValue \/ v = ""

\* the theme toggleTheme() switches to: 'dark' from 'light', else 'light'
newTheme(currentTheme) == IF currentTheme = "light" THEN "dark" ELSE "light"

\* mutant: the theme is stored under a second key as well
toggleThemeStoresMode(t) ==
    [theme |-> newTheme(t.theme),
     store |-> setItem(setItem(t.store, "theme", newTheme(t.theme)),
                       "mode", newTheme(t.theme))]

\* mutant: the new theme is shown but the old one is stored
toggleThemeStoresOld(t) ==
    [theme |-> newTheme(t.theme),
     store |-> setItem(t.store, "theme", t.theme)]

\* function toggleTheme(), on [theme |-> data-theme, store |-> the storage]
toggleTheme(t) ==
    [theme |-> newTheme(t.theme),
     store |-> setItem(t.store, "theme", newTheme(t.theme))]

\* mutant: the default is 'light'
loadThemePreferenceLight(store) ==
    IF Falsy(getItem(store, "theme")) THEN "light" ELSE getItem(store, "theme")

\* function loadThemePreference(): the data-theme it sets
loadThemePreference(store) ==
    IF Falsy(getItem(store, "theme")) THEN "dark" ELSE getItem(store, "theme")

\* a click on #themeToggle: toggleTheme, then the document's listener
ClickThemeToggle(target) ==
    /\ Has("themeToggle")
    /\ target \in {InsideMenu, Elsewhere}
    /\ LET t == toggleTheme([theme |-> dataTheme, store |-> localStorage])
       IN  /\ dataTheme' = t.theme
           /\ localStorage' = t.store
    /\ MenuBecomes(closeMobileMenuOnClickOutside(Menu, target))
    /\ UNCHANGED <<pageVars, readyState, scrollVars, activeElement, contentVars,
                   heroVars, nameVars>>

\* the themes the markup of a page may set on body
HtmlThemes == {NoValue, "light", "dark"}

\* what earlier visits of the site may have left in the storage
StoredThemes == {{}, {<<"theme", "light">>}, {<<"theme", "dark">>}}

ThemeInit(themes, stores) ==
    /\ htmlTheme \in themes
    /\ dataTheme = htmlTheme
    /\ localStorage \in stores

-----------------------------------------------------------------------------
(***************************************************************************)
(* BLOG SEARCH AND CATEGORY FILTER                                         *)
(* A text is a sequence of characters.                                     *)
(***************************************************************************)
\* the characters of the texts and queries of the model
Alphabet == {"a", "b", "A", " "}

\* String.prototype.toLowerCase, character by character
LowerChar(c) == IF c = "A" THEN "a" ELSE IF c = "B" THEN "b" ELSE c

toLowerCase(str) == [i \in 1..Len(str) |-> LowerChar(str[i])]

IsWhiteSpace(c) == c = " "

RECURSIVE trimStart(_)
trimStart(str) ==
    IF str # << >> /\ IsWhiteSpace(Head(str)) THEN trimStart(Tail(str)) ELSE str

RECURSIVE trimEnd(_)
trimEnd(str) ==
    IF str # << >> /\ IsWhiteSpace(str[Len(str)])
    THEN trimEnd(SubSeq(str, 1, Len(str) - 1))
    ELSE str

\* String.prototype.trim
trim(str) == trimEnd(trimStart(str))

\* String.prototype.includes
includes(str, search) ==
    \E i \in 0..(Len(str) - Len(search)) :
        SubSeq(str, i + 1, i + Len(search)) = search

\* an element a card holds, and one it lacks (querySelector gives null)
Element(text) == [present |-> TRUE, textContent |-> text]
Missing == [present |-> FALSE, textContent |-> << >>]

\* the .blog-card and .insight-card elements of the blog page, each with
\* its title, excerpt and category element
BlogCards ==
    << [title    |-> Element(<<"A", "b">>),
        excerpt  |-> Element(<<"b", " ", "a">>),
        category |-> Element(<<" ", "a", " ">>)],
       [title    |-> Missing,
        excerpt  |-> Missing,
        category |-> Element(<<"a", "b">>)],
       [title    |-> Element(<<"b", "b">>),
        excerpt  |-> Element(<< >>),
        category |-> Missing] >>

\* document.querySelectorAll('.blog-card, .insight-card')
blogCards == IF Has("blog-cards") THEN BlogCards ELSE << >>

\* the category name that shows every card
All == <<"a", "l", "l">>

\* data-category of the .filter-btn elements, in document order
FilterButtons == << All, <<"a">>, <<"b">>, <<"a", "b">>, <<" ", "a", " ">> >>

filterButtons == IF Has("filter-buttons") THEN FilterButtons ELSE << >>

\* the longest query typed into the search input
MaxQueryLen == 2

\* the texts of at most n characters
RECURSIVE Texts(_)
Texts(n) ==
    IF n = 0 THEN {<< >>}
    ELSE Texts(n - 1) \cup
         {Append(t, c) : t \in {u \in Texts(n - 1) : Len(u) = n - 1},
                          c \in Alphabet}

Queries == Texts(MaxQueryLen)

\* the state of the blog page as one record
Blog ==
    [display   |-> cardDisplay,
     fadeIn    |-> cardFadeIn,
     noResults |-> noResultsCount,
     search    |-> searchValue,
     active    |-> activeFilters]

BlogBecomes(b) ==
    /\ cardDisplay' = b.display
    /\ cardFadeIn' = b.fadeIn
    /\ noResultsCount' = b.noResults
    /\ searchValue' = b.search
    /\ activeFilters' = b.active

\* the text of an element of a card, lower-cased; '' for a missing element
lowerText(element) ==
    IF element.present THEN toLowerCase(element.textContent) ELSE << >>

\* mutant: the query is trimmed but not lower-cased
normalizeQueryKeepsCase(query) == trim(query)

\* const normalizedQuery = query.toLowerCase().trim()
normalizeQuery(query) == trim(toLowerCase(query))

\* const matchesSearch, for one card
matchesSearch(card, normalizedQuery) ==
    \/ includes(lowerText(card.title), normalizedQuery)
    \/ includes(lowerText(card.excerpt), normalizedQuery)
    \/ includes(lowerText(card.category), normalizedQuery)

\* the cards filterBlogPosts(query) shows
searchVisible(query) ==
    {i \in 1..Len(blogCards) :
        \/ matchesSearch(blogCards[i], normalizeQuery(query))
        \/ normalizeQuery(query) = << >>}

\* mutant: the message is appended without looking for the one in place
showNoResultsMessageAppends(b, show) ==
    IF show
    THEN IF Has("blog-grid") THEN [b EXCEPT !.noResults = @ + 1] ELSE b
    ELSE IF b.noResults > 0
         THEN [b EXCEPT !.noResults = @ - 1]
         ELSE b

\* function showNoResultsMessage(show): the message is created and put into
\* the grid when it is not in the document, or the one found is removed
showNoResultsMessage(b, show) ==
    IF show
    THEN IF b.noResults = 0 /\ Has("blog-grid")
         THEN [b EXCEPT !.noResults = 1]
         ELSE b
    ELSE IF b.noResults > 0
         THEN [b EXCEPT !.noResults = @ - 1]
         ELSE b

\* the cards of set visible shown and given 'fade-in', the others hidden
showCards(b, visible) ==
    [b EXCEPT
        !.display = [i \in 1..Len(blogCards) |->
                        IF i \in visible THEN "" ELSE "none"],
        !.fadeIn = @ \cup visible]

\* function filterBlogPosts(query)
filterBlogPosts(b, query) ==
    showNoResultsMessage(showCards(b, searchVisible(query)),
                         searchVisible(query) = {})

\* mutant: the input is emptied and the posts are not filtered again
clearBlogSearchKeepsCards(b) ==
    IF Has("blogSearch") THEN [b EXCEPT !.search = << >>] ELSE b

\* function clearBlogSearch()
clearBlogSearch(b) ==
    IF Has("blogSearch")
    THEN filterBlogPosts([b EXCEPT !.search = << >>], << >>)
    ELSE b

\* mutant: the category text is compared untrimmed
categoryTextUntrimmed(card) ==
    IF card.category.present THEN card.category.textContent ELSE << >>

\* the category text of a card: textContent.trim(), '' without the element
categoryText(card) ==
    IF card.category.present THEN trim(card.category.textContent) ELSE << >>

\* the cards filterByCategory(category) shows
categoryVisible(category) ==
    {i \in 1..Len(blogCards) :
        category = All \/ categoryText(blogCards[i]) = category}

\* function updateActiveFilter(activeCategory)
updateActiveFilter(b, activeCategory) ==
    [b EXCEPT !.active = {k \in 1..Len(filterButtons) :
                            filterButtons[k] = activeCategory}]

\* function filterByCategory(category)
filterByCategory(b, category) ==
    updateActiveFilter(showCards(b, categoryVisible(category)), category)

\* everything outside the blog widgets and the menu stays as it is
BlogFrame ==
    UNCHANGED <<pageVars, readyState, scrollVars, activeElement, themeVars,
                shareVars, formVars, heroVars, nameVars>>

\* the 'input' listener of #blogSearch, set up by initBlogSearch on
\* DOMContentLoaded: the user made the value of the input q
SearchInput(q) ==
    /\ readyState # "loading"
    /\ Has("blogSearch")
    /\ BlogBecomes(filterBlogPosts([Blog EXCEPT !.search = q], q))
    /\ UNCHANGED menuVars
    /\ BlogFrame

\* a click on #clearSearch: clearBlogSearch, then the document's listener
ClickClearSearch ==
    /\ readyState # "loading"
    /\ Has("blogSearch") /\ Has("clearSearch")
    /\ BlogBecomes(clearBlogSearch(Blog))
    /\ MenuBecomes(closeMobileMenuOnClickOutside(Menu, Elsewhere))
    /\ BlogFrame

\* a click on a link with onclick="clearBlogSearch()" and href="#": the
\* link of the message, or one like it in the markup (#clear-link); the
\* inline handler runs, then the document's listener, then the link takes
\* the window to the top
ClickClearLink ==
    /\ noResultsCount > 0 \/ Has("clear-link")
    /\ BlogBecomes(clearBlogSearch(Blog))
    /\ MenuBecomes(closeMobileMenuOnClickOutside(Menu, Elsewhere))
    /\ ScrolledTo(scrollTo(0))
    /\ UNCHANGED <<navbarScrolled, activeLinks, lastScrollTime, now,
                   progressWidth, backToTopVisible>>
    /\ UNCHANGED <<pageVars, readyState, activeElement, themeVars,
                   shareVars, formVars, heroVars, nameVars>>

\* a click on filter button k: filterByCategory(dataset.category), then
\* the document's listener
ClickFilter(k) ==
    /\ readyState # "loading"
    /\ k \in 1..Len(filterButtons)
    /\ BlogBecomes(filterByCategory(Blog, filterButtons[k]))
    /\ MenuBecomes(closeMobileMenuOnClickOutside(Menu, Elsewhere))
    /\ BlogFrame

\* the blog page when the scripts have run: every card as the markup has it
BlogStart ==
    [display   |-> [i \in 1..Len(BlogCards) |-> ""],
     fadeIn    |-> {},
     noResults |-> 0,
     search    |-> << >>,
     active    |-> {}]

BlogInit ==
    /\ cardDisplay = BlogStart.display
    /\ cardFadeIn = BlogStart.fadeIn
    /\ noResultsCount = BlogStart.noResults
    /\ searchValue = BlogStart.search
    /\ activeFilters = BlogStart.active

-----------------------------------------------------------------------------
(***************************************************************************)
(* SOCIAL SHARING                                                          *)
(***************************************************************************)
\* data-share of the [data-share] buttons of a post page
ShareButtons == {"twitter", "linkedin", "facebook", "whatsapp", "copy", "email"}

\* the platforms shareBlogPost has a share page for
SharePlatforms == {"twitter", "linkedin", "facebook", "whatsapp"}

\* the most copies of the link in progress at a time: promises not settled
\* and timeouts of the notification not fired
MaxCopies == 2

Share ==
    [opened       |-> openedWindow,
     clipboard    |-> clipboard,
     pending      |-> clipboardPending,
     notification |-> notification,
     slideOut     |-> slideOutTimers,
     hide         |-> hideTimers,
     console      |-> console]

ShareBecomes(w) ==
    /\ openedWindow' = w.opened
    /\ clipboard' = w.clipboard
    /\ clipboardPending' = w.pending
    /\ notification' = w.notification
    /\ slideOutTimers' = w.slideOut
    /\ hideTimers' = w.hide
    /\ console' = w.console

\* function shareBlogPost(platform): window.open of the platform's share
\* page, nothing for a platform the switch does not know
shareBlogPost(w, platform) ==
    IF platform \in SharePlatforms THEN [w EXCEPT !.opened = platform] ELSE w

\* function copyBlogUrl(): navigator.clipboard.writeText(url) is begun
copyBlogUrl(w) == [w EXCEPT !.pending = @ + 1]

\* function showCopyNotification(message): the notification is created when
\* the document has none, shown with the message, and a timeout is set
showCopyNotification(w, message) ==
    [w EXCEPT
        !.notification =
            [present     |-> TRUE,
             textContent |-> message,
             display     |-> "block",
             animation   |-> IF w.notification.present
                             THEN w.notification.animation
                             ELSE "slideIn"],
        !.slideOut = @ + 1]

\* the promise of writeText is fulfilled: the url is on the clipboard
writeTextFulfilled(w) ==
    showCopyNotification([w EXCEPT !.pending = @ - 1,
                                   !.clipboard = "location.href"],
                         "Link copied to clipboard!")

\* mutant: the rejected write puts up the notification all the same
writeTextRejectedNotifies(w) ==
    showCopyNotification([w EXCEPT !.pending = @ - 1,
                                   !.console = @ \cup {"Failed to copy:"}],
                         "Link copied to clipboard!")

\* the promise of writeText is rejected: catch logs the error
writeTextRejected(w) ==
    [w EXCEPT !.pending = @ - 1, !.console = @ \cup {"Failed to copy:"}]

\* the callback of the 2000 ms timeout
notificationSlideOut(w) ==
    [w EXCEPT !.notification.animation = "slideOut",
              !.slideOut = @ - 1,
              !.hide = @ + 1]

\* the callback of the 300 ms timeout
notificationHide(w) ==
    [w EXCEPT !.notification.display = "none", !.hide = @ - 1]

\* everything outside the sharing widgets and the menu stays as it is
ShareFrame ==
    UNCHANGED <<pageVars, readyState, scrollVars, activeElement, themeVars,
                blogVars, formVars, heroVars, nameVars>>

\* a click on the [data-share] button of platform, whose listener
\* initSocialSharing set up on DOMContentLoaded, then the document's listener
ClickShare(platform) ==
    /\ readyState # "loading"
    /\ Has("share-buttons")
    /\ platform \in ShareButtons
    /\ IF platform = "copy"
       THEN /\ clipboardPending + slideOutTimers + hideTimers < MaxCopies
            /\ ShareBecomes(copyBlogUrl(Share))
       ELSE ShareBecomes(shareBlogPost(Share, platform))
    /\ MenuBecomes(closeMobileMenuOnClickOutside(Menu, Elsewhere))
    /\ ShareFrame

\* the browser settles a writeText promise, one way or the other
WriteTextSettles(fulfilled) ==
    /\ clipboardPending > 0
    /\ ShareBecomes(IF fulfilled THEN writeTextFulfilled(Share)
                                 ELSE writeTextRejected(Share))
    /\ UNCHANGED menuVars
    /\ ShareFrame

\* a timeout of showCopyNotification fires
NotificationTimerFires(kind) ==
    /\ \/ kind = "slideOut" /\ slideOutTimers > 0
          /\ ShareBecomes(notificationSlideOut(Share))
       \/ kind = "hide" /\ hideTimers > 0
          /\ ShareBecomes(notificationHide(Share))
    /\ UNCHANGED menuVars
    /\ ShareFrame

\* no copy in progress and no notification in the document
ShareStart ==
    [opened       |-> NoValue,
     clipboard    |-> NoValue,
     pending      |-> 0,
     notification |-> [present |-> FALSE, textContent |-> "",
                       display |-> "", animation |-> ""],
     slideOut     |-> 0,
     hide         |-> 0,
     console      |-> {}]

ShareInit ==
    /\ openedWindow = ShareStart.opened
    /\ clipboard = ShareStart.clipboard
    /\ clipboardPending = ShareStart.pending
    /\ notification = ShareStart.notification
    /\ slideOutTimers = ShareStart.slideOut
    /\ hideTimers = ShareStart.hide
    /\ console = ShareStart.console

-----------------------------------------------------------------------------
(***************************************************************************)
(* CONTACT FORM VALIDATION                                                 *)
(***************************************************************************)
\* a text of n characters c
Repeat(c, n) == [i \in 1..n |-> c]

\* the values the user may have put into the email input
EmailValues ==
    { << >>,
      <<"a", "@", "b", ".", "c">>,
      <<"a", "@", "b">>,
      <<"a", "@", "b", ".">>,
      <<"a", " ", "@", "b", ".", "c">>,
      <<"a", "@", "@", "b", ".", "c">>,
      <<"@", "b", ".", "c">>,
      <<"a", "@", ".", "c">>,
      <<"a", "@", "b", ".", "c", ".", "d">> }

\* the values the user may have put into the message textarea
MessageValues ==
    { << >>,
      Repeat("a", 9),
      Repeat("a", 10),
      <<" ">> \o Repeat("a", 9) \o <<" ">>,
      <<" ">> \o Repeat("a", 10) }

\* [^\s@]
NotSpaceNorAt(c) == ~IsWhiteSpace(c) /\ c # "@"

\* function validateEmail(email): /^[^\s@]+@[^\s@]+\.[^\s@]+$/ matches
validateEmail(email) ==
    \E i \in 1..Len(email), j \in 1..Len(email) :
        /\ 1 < i /\ i + 1 < j /\ j < Len(email)
        /\ email[i] = "@"
        /\ email[j] = "."
        /\ \A k \in (1..Len(email)) \ {i, j} : NotSpaceNorAt(email[k])

\* field.parentElement: each field in a group of its own, or both in the form
parentElement(field) ==
    IF Has("form-groups") THEN
        IF field = "email" THEN "group-email" ELSE "group-message"
    ELSE "form"

Parents == {"group-email", "group-message", "form"}

Form == [fields |-> errorFields, messages |-> errorMessages, last |-> lastSubmit]

FormBecomes(f) ==
    /\ errorFields' = f.fields
    /\ errorMessages' = f.messages
    /\ lastSubmit' = f.last

\* function showError(field, message): the first .error-message of the
\* field's parent is removed and a new one appended to the parent
showError(f, field, message) ==
    [f EXCEPT
        !.fields = @ \cup {field},
        !.messages[parentElement(field)] =
            Append(IF @ # << >> THEN Tail(@) ELSE @, message)]

emailInvalid(email) == Has("email") /\ ~validateEmail(email)

messageInvalid(message) == Has("message") /\ Len(trim(message)) < 10

\* function validateContactForm(e)
validateContactForm(f, email, message) ==
    LET f1 == IF emailInvalid(email)
              THEN showError(f, "email", "Please enter a valid email address")
              ELSE f
        f2 == IF messageInvalid(message)
              THEN showError(f1, "message",
                             "Message must be at least 10 characters")
              ELSE f1
    IN  [f2 EXCEPT !.last = IF emailInvalid(email) \/ messageInvalid(message)
                            THEN "prevented" ELSE "submitted"]

\* the form is submitted with the values email and message, by a click on
\* its button (the document's listener follows) or from the keyboard
Submit(email, message, byClick) ==
    /\ Has("contact-form")
    /\ FormBecomes(validateContactForm(Form, email, message))
    /\ IF byClick
       THEN MenuBecomes(closeMobileMenuOnClickOutside(Menu, Elsewhere))
       ELSE UNCHANGED menuVars
    /\ UNCHANGED <<pageVars, readyState, scrollVars, activeElement, themeVars,
                   blogVars, shareVars, heroVars, nameVars>>

FormStart ==
    [fields   |-> {},
     messages |-> [p \in Parents |-> << >>],
     last     |-> "none"]

FormInit ==
    /\ errorFields = FormStart.fields
    /\ errorMessages = FormStart.messages
    /\ lastSubmit = FormStart.last

-----------------------------------------------------------------------------
(***************************************************************************)
(* HERO CODE ANIMATION                                                     *)
(***************************************************************************)
\* const codeData: lines of tokens {text, class}
codeData ==
  <<
    <<
       [text |-> <<"i", "m", "p", "o", "r", "t">>,
        class |-> "code-keyword"],
       [text |-> <<" ", "t", "e", "n", "s", "o", "r", "f", "l", "o", "w">>,
        class |-> "code-module"],
       [text |-> <<" ", "a", "s">>,
        class |-> "code-keyword"],
       [text |-> <<" ", "t", "f">>,
        class |-> ""]
    >>,
    <<
       [text |-> <<"f", "r", "o", "m">>,
        class |-> "code-keyword"],
       [text |-> <<" ", "s", "k", "l", "e", "a", "r", "n">>,
        class |-> "code-module"],
       [text |-> <<" ", "i", "m", "p", "o", "r", "t">>,
        class |-> "code-keyword"],
       [text |-> <<" ", "m", "o", "d", "e", "l", "_", "s", "e", "l", "e", "c", "t", "i", "o", "n">>,
        class |-> ""]
    >>,
    << >>,
    <<
       [text |-> <<"c", "l", "a", "s", "s">>,
        class |-> "code-keyword"],
       [text |-> <<" ", "A", "I", "E", "n", "g", "i", "n", "e", "e", "r">>,
        class |-> "code-class"],
       [text |-> <<":">>,
        class |-> ""]
    >>,
    <<
       [text |-> <<" ", " ", " ", " ", "d", "e", "f">>,
        class |-> "code-keyword"],
       [text |-> <<" ", "_", "_", "i", "n", "i", "t", "_", "_">>,
        class |-> "code-function"],
       [text |-> <<"(">>,
        class |-> ""],
       [text |-> <<"s", "e", "l", "f">>,
        class |-> "code-param"],
       [text |-> <<")", ":">>,
        class |-> ""]
    >>,
    <<
       [text |-> <<" ", " ", " ", " ", " ", " ", " ", " ", "s", "e", "l", "f">>,
        class |-> "code-param"],
       [text |-> <<".">>,
        class |-> ""],
       [text |-> <<"n", "a", "m", "e">>,
        class |-> ""],
       [text |-> <<" ", "=", " ">>,
        class |-> ""],
       [text |-> <<"\"", "P", "r", "a", "s", "a", "d", " ", "S", "w", "a", "i", "n", "\"">>,
        class |-> "code-string"]
    >>,
    <<
       [text |-> <<" ", " ", " ", " ", " ", " ", " ", " ", "s", "e", "l", "f">>,
        class |-> "code-param"],
       [text |-> <<".">>,
        class |-> ""],
       [text |-> <<"s", "k", "i", "l", "l", "s">>,
        class |-> ""],
       [text |-> <<" ", "=", " ", "[">>,
        class |-> ""],
       [text |-> <<"\"", "M", "L", "\"">>,
        class |-> "code-string"],
       [text |-> <<",", " ">>,
        class |-> ""],
       [text |-> <<"\"", "A", "I", "\"">>,
        class |-> "code-string"],
       [text |-> <<",", " ">>,
        class |-> ""],
       [text |-> <<"\"", "W", "e", "b", " ", "D", "e", "v", "\"">>,
        class |-> "code-string"],
       [text |-> <<"]">>,
        class |-> ""]
    >>,
    << >>,
    <<
       [text |-> <<" ", " ", " ", " ", "d", "e", "f">>,
        class |-> "code-keyword"],
       [text |-> <<" ", "b", "u", "i", "l", "d", "_", "f", "u", "t", "u", "r", "e">>,
        class |-> "code-function"],
       [text |-> <<"(">>,
        class |-> ""],
       [text |-> <<"s", "e", "l", "f">>,
        class |-> "code-param"],
       [text |-> <<")", ":">>,
        class |-> ""]
    >>,
    <<
       [text |-> <<" ", " ", " ", " ", " ", " ", " ", " ", "r", "e", "t", "u", "r", "n">>,
        class |-> "code-keyword"],
       [text |-> <<" ", "\"", "I", "n", "n", "o", "v", "a", "t", "i", "o", "n", "\"">>,
        class |-> "code-string"],
       [text |-> <<" ", "U+D83D", "U+DE80">>,
        class |-> ""]
    >>
  >>

\* the closure state of the animation as one record
Hero ==
    [display            |-> codeDisplay,
     lineIndex          |-> lineIndex,
     tokenIndex         |-> tokenIndex,
     charIndex          |-> charIndex,
     currentLineElement |-> currentLineElement,
     currentTokenSpan   |-> currentTokenSpan,
     timers             |-> heroTimers,
     fault              |-> heroFault]

\* setTimeout(callback, delay): one more pending callback
heroSetTimeout(h, callback) == [h EXCEPT !.timers = Append(@, callback)]

\* cursorElement.parentNode.removeChild(cursorElement); the positions held
\* by currentLineElement and currentTokenSpan follow their nodes
removeCursor(h) ==
    LET d    == h.display
        line == h.currentLineElement
        span == h.currentTokenSpan
    IN  [h EXCEPT
            !.display = [i \in 1..Len(WithoutCursor(d)) |->
                            LET n == WithoutCursor(d)[i]
                            IN  [n EXCEPT !.children = WithoutCursor(@)]],
            !.currentLineElement =
                IF line = NULL THEN NULL ELSE line - CursorsBefore(d, line),
            !.currentTokenSpan =
                IF span = NULL \/ line = NULL THEN span
                ELSE span - CursorsBefore(d[line].children, span)]

\* function updateCursorPosition()
updateCursorPosition(h) ==
    LET r == removeCursor(h)
    IN  IF r.currentLineElement # NULL
        THEN [r EXCEPT !.display[r.currentLineElement].children =
                            Append(@, createCursor)]
        ELSE [r EXCEPT !.display = Append(@, createCursor)]

\* currentLineElement = document.createElement('div');
\* codeDisplay.appendChild(currentLineElement); updateCursorPosition();
startLine(h) ==
    updateCursorPosition(
        [h EXCEPT !.display = Append(@, Node("div", "", << >>, << >>)),
                  !.currentLineElement = Len(h.display) + 1])

\* mutant: empty lines are not recognised
IsEmptyLineNever(lineData) == FALSE

\* if (codeData[lineIndex].length === 0): the line has no token
IsEmptyLine(lineData) == Len(lineData) = 0

\* the empty-line branch: lineIndex++, both references reset, 100 ms timer
skipEmptyLine(h) ==
    heroSetTimeout([h EXCEPT !.lineIndex = @ + 1,
                             !.currentTokenSpan = NULL,
                             !.currentLineElement = NULL],
                   "typeNextChar")

\* mutant: the span never gets its class
tokenClassNameDropped(tokenData) == ""

\* className of a new token span: set only for a non-empty class
tokenClassName(tokenData) ==
    IF tokenData.class # "" THEN tokenData.class ELSE ""

\* currentTokenSpan = document.createElement('span'), placed before the
\* cursor when the cursor is a child of the current line, appended otherwise
startTokenSpan(h, tokenData) ==
    LET line     == h.currentLineElement
        children == h.display[line].children
        span     == Node("span", tokenClassName(tokenData), << >>, << >>)
        k        == CursorPosition(children)
    IN  IF k # 0
        THEN [h EXCEPT !.display[line].children = InsertAt(@, k, span),
                       !.currentTokenSpan = k]
        ELSE updateCursorPosition(
                [h EXCEPT !.display[line].children = Append(@, span),
                          !.currentTokenSpan = Len(children) + 1])

\* currentTokenSpan.textContent += currentTokenData.text[charIndex];
\* charIndex++; setTimeout(typeNextChar, 30..70 ms)
typeCharacter(h, tokenData) ==
    heroSetTimeout(
        [h EXCEPT !.display[h.currentLineElement]
                        .children[h.currentTokenSpan].text =
                            Append(@, tokenData.text[h.charIndex + 1]),
                  !.charIndex = @ + 1],
        "typeNextChar")

\* mutant: charIndex is not reset at the end of a token
nextTokenKeepsCharIndex(h) ==
    [h EXCEPT !.tokenIndex = @ + 1, !.currentTokenSpan = NULL]

\* "Move to next token": charIndex = 0; tokenIndex++; currentTokenSpan = null
nextToken(h) ==
    [h EXCEPT !.charIndex = 0, !.tokenIndex = @ + 1, !.currentTokenSpan = NULL]

\* mutant: the end of a line schedules the next line twice
nextLineTwice(h) ==
    heroSetTimeout(
        heroSetTimeout([h EXCEPT !.tokenIndex = 0,
                                 !.lineIndex = @ + 1,
                                 !.currentLineElement = NULL],
                       "typeNextChar"),
        "typeNextChar")

\* "Move to next line": tokenIndex = 0; lineIndex++;
\* currentLineElement = null; setTimeout(typeNextChar, 150)
nextLine(h) ==
    heroSetTimeout([h EXCEPT !.tokenIndex = 0,
                             !.lineIndex = @ + 1,
                             !.currentLineElement = NULL],
                   "typeNextChar")

\* "Finished typing": setTimeout(restartAnimation, 3000)
finishPass(h) == heroSetTimeout(h, "restartAnimation")

\* function typeNextChar(), with its synchronous re-entry at a token's end.
\* Reading a line or a token outside the array yields undefined, and the read
\* of its length, class or text throws: the callback ends there (fault).
RECURSIVE typeNextChar(_)
typeNextChar(h) ==
    IF h.lineIndex >= Len(codeData)
    THEN finishPass(h)
    ELSE
      LET fresh == h.currentLineElement = NULL
          hl    == IF fresh THEN startLine(h) ELSE h
          currentLineData == codeData[hl.lineIndex + 1]
      IN  IF hl.lineIndex < 0
          THEN [hl EXCEPT !.fault = TRUE]
          ELSE IF fresh /\ IsEmptyLine(currentLineData)
          THEN skipEmptyLine(hl)
          ELSE IF hl.tokenIndex < 0 \/ hl.tokenIndex >= Len(currentLineData)
          THEN [hl EXCEPT !.fault = TRUE]
          ELSE
            LET currentTokenData == currentLineData[hl.tokenIndex + 1]
                hs == IF hl.currentTokenSpan = NULL
                      THEN startTokenSpan(hl, currentTokenData)
                      ELSE hl
            IN  IF hs.charIndex < Len(currentTokenData.text)
                THEN typeCharacter(hs, currentTokenData)
                ELSE LET hn == nextToken(hs)
                     IN  IF hn.tokenIndex >= Len(currentLineData)
                         THEN nextLine(hn)
                         ELSE typeNextChar(hn)

\* mutant: lineIndex is not reset by the restart
restartAnimationKeepsLine(h) ==
    heroSetTimeout(
        [h EXCEPT !.display = <<createCursor>>,
                  !.tokenIndex = 0,
                  !.charIndex = 0,
                  !.currentLineElement = NULL,
                  !.currentTokenSpan = NULL],
        "typeNextChar")

\* function restartAnimation()
restartAnimation(h) ==
    heroSetTimeout(
        [h EXCEPT !.display = <<createCursor>>,
                  !.lineIndex = 0,
                  !.tokenIndex = 0,
                  !.charIndex = 0,
                  !.currentLineElement = NULL,
                  !.currentTokenSpan = NULL],
        "typeNextChar")

\* the closure's variables take the values of record h
HeroBecomes(h) ==
    /\ codeDisplay' = h.display
    /\ lineIndex' = h.lineIndex
    /\ tokenIndex' = h.tokenIndex
    /\ charIndex' = h.charIndex
    /\ currentLineElement' = h.currentLineElement
    /\ currentTokenSpan' = h.currentTokenSpan
    /\ heroTimers' = h.timers
    /\ heroFault' = h.fault

\* the animation before the 'load' event: nothing displayed, no timer
HeroStart ==
    [display            |-> << >>,
     lineIndex          |-> 0,
     tokenIndex         |-> 0,
     charIndex          |-> 0,
     currentLineElement |-> NULL,
     currentTokenSpan   |-> NULL,
     timers             |-> << >>,
     fault              |-> FALSE]

HeroInit ==
    /\ codeDisplay = HeroStart.display
    /\ lineIndex = HeroStart.lineIndex
    /\ tokenIndex = HeroStart.tokenIndex
    /\ charIndex = HeroStart.charIndex
    /\ currentLineElement = HeroStart.currentLineElement
    /\ currentTokenSpan = HeroStart.currentTokenSpan
    /\ heroTimers = HeroStart.timers
    /\ heroFault = HeroStart.fault

\* function initHeroCodeAnimation(), the 'load' listener: nothing without
\* the display element, else the closure's start values and
\* setTimeout(restartAnimation, 1000)
initHeroCodeAnimation(h) ==
    IF ~Has("hero-code-display") THEN h
    ELSE [h EXCEPT !.lineIndex = 0,
                   !.tokenIndex = 0,
                   !.charIndex = 0,
                   !.currentLineElement = NULL,
                   !.currentTokenSpan = NULL,
                   !.timers = Append(@, "restartAnimation")]

\* a pending timer of the animation fires and runs typeNextChar
TypeNextCharFires ==
    \E i \in 1..Len(heroTimers) :
        /\ heroTimers[i] = "typeNextChar"
        /\ HeroBecomes(typeNextChar([Hero EXCEPT !.timers = RemoveAt(@, i)]))
        /\ UNCHANGED <<pageVars, readyState, menuVars, scrollVars,
                       activeElement, themeVars, contentVars, nameVars>>

\* a pending timer of the animation fires and runs restartAnimation
RestartAnimationFires ==
    \E i \in 1..Len(heroTimers) :
        /\ heroTimers[i] = "restartAnimation"
        /\ HeroBecomes(restartAnimation([Hero EXCEPT !.timers = RemoveAt(@, i)]))
        /\ UNCHANGED <<pageVars, readyState, menuVars, scrollVars,
                       activeElement, themeVars, contentVars, nameVars>>

-----------------------------------------------------------------------------
(***************************************************************************)
(* NAME TYPING ANIMATION                                                   *)
(***************************************************************************)
\* const nameData
nameData ==
    << [text |-> <<"P", "r", "a", "s", "a", "d", " ">>, class |-> ""],
       [text |-> <<"S", "w", "a", "i", "n">>, class |-> "gradient-text"] >>

\* the closure state of the animation as one record
\* mutant: tokenIndex is one variable that both animations use
NameSharingTokenIndex ==
    [display          |-> nameDisplay,
     tokenIndex       |-> tokenIndex,
     charIndex        |-> nameCharIndex,
     currentTokenSpan |-> nameCurrentTokenSpan,
     isDeleting       |-> isDeleting,
     timers           |-> nameTimers]

Name ==
    [display          |-> nameDisplay,
     tokenIndex       |-> nameTokenIndex,
     charIndex        |-> nameCharIndex,
     currentTokenSpan |-> nameCurrentTokenSpan,
     isDeleting       |-> isDeleting,
     timers           |-> nameTimers]

\* setTimeout(type, delay)
nameSetTimeout(n) == [n EXCEPT !.timers = Append(@, "type")]

\* mutant: the cursor stays where initNameAnimation put it
updateCursorKeepsPlace(n) == n

\* function updateCursor(): the cursor becomes the last child of the display
updateCursor(n) ==
    LET d    == n.display
        span == n.currentTokenSpan
    IN  [n EXCEPT !.display = Append(WithoutCursor(d), createCursor),
                  !.currentTokenSpan =
                      IF span = NULL THEN NULL ELSE span - CursorsBefore(d, span)]

\* currentTokenSpan = document.createElement('span') with the token's class;
\* nameDisplay.appendChild(currentTokenSpan); updateCursor()
nameStartTokenSpan(n) ==
    updateCursor(
        [n EXCEPT !.display =
                      Append(@, Node("span",
                                     tokenClassName(nameData[n.tokenIndex + 1]),
                                     << >>, << >>)),
                  !.currentTokenSpan = Len(n.display) + 1])

\* the typing branch of type(): one character, or the end of the token
nameTypeStep(n) ==
    LET currentText == nameData[n.tokenIndex + 1].text
    IN  IF n.charIndex < Len(currentText)
        THEN nameSetTimeout(
                [n EXCEPT !.display[n.currentTokenSpan].text =
                                Append(@, currentText[n.charIndex + 1]),
                          !.charIndex = @ + 1])
        ELSE nameSetTimeout(
                [n EXCEPT !.tokenIndex = @ + 1,
                          !.charIndex = 0,
                          !.currentTokenSpan = NULL])

\* nameDisplay.querySelectorAll('span:not(.cursor)'): positions of the spans
TokenSpans(display) ==
    {j \in 1..Len(display) : display[j].tag = "span" /\ ~IsCursor(display[j])}

Max(S) == CHOOSE x \in S : \A y \in S : y <= x

\* mutant: the reset leaves isDeleting set
nameResetKeepsDeleting(n) ==
    nameSetTimeout([n EXCEPT !.tokenIndex = 0,
                             !.charIndex = 0,
                             !.currentTokenSpan = NULL])

\* the reset of the closure once every span is gone (500 ms timer)
nameReset(n) ==
    nameSetTimeout([n EXCEPT !.tokenIndex = 0,
                             !.charIndex = 0,
                             !.isDeleting = FALSE,
                             !.currentTokenSpan = NULL])

\* the "Safety reset" branch: as nameReset, currentTokenSpan left alone
nameSafetyReset(n) ==
    nameSetTimeout([n EXCEPT !.tokenIndex = 0,
                             !.charIndex = 0,
                             !.isDeleting = FALSE])

\* the deleting branch of type(): backspace the last span, remove it when
\* it is empty, reset when no span is left
nameDeleteStep(n) ==
    LET spans == TokenSpans(n.display)
    IN  IF spans # {}
        THEN LET lastSpan == Max(spans)
                 text     == n.display[lastSpan].text
             IN  IF Len(text) > 0
                 THEN nameSetTimeout(
                        [n EXCEPT !.display[lastSpan].text =
                                        SubSeq(text, 1, Len(text) - 1)])
                 ELSE LET r == updateCursor(
                                 [n EXCEPT !.display = RemoveAt(@, lastSpan),
                                           !.currentTokenSpan =
                                               IF @ = lastSpan THEN NULL
                                               ELSE IF @ > lastSpan THEN @ - 1
                                               ELSE @])
                      IN  IF TokenSpans(r.display) = {}
                          THEN nameReset(r)
                          ELSE nameSetTimeout(r)
        ELSE nameSafetyReset(n)

\* function type()
type(n) ==
    IF n.tokenIndex < Len(nameData)
    THEN LET ns == IF n.currentTokenSpan = NULL THEN nameStartTokenSpan(n) ELSE n
         IN  IF ~ns.isDeleting THEN nameTypeStep(ns) ELSE ns
    ELSE IF ~n.isDeleting
         THEN nameSetTimeout([n EXCEPT !.isDeleting = TRUE])
         ELSE nameDeleteStep(n)

NameBecomes(n) ==
    /\ nameDisplay' = n.display
    /\ nameTokenIndex' = n.tokenIndex
    /\ nameCharIndex' = n.charIndex
    /\ nameCurrentTokenSpan' = n.currentTokenSpan
    /\ isDeleting' = n.isDeleting
    /\ nameTimers' = n.timers

\* the animation before the 'load' event: an empty display, no timer
NameStart ==
    [display          |-> << >>,
     tokenIndex       |-> 0,
     charIndex        |-> 0,
     currentTokenSpan |-> NULL,
     isDeleting       |-> FALSE,
     timers           |-> << >>]

NameInit ==
    /\ nameDisplay = NameStart.display
    /\ nameTokenIndex = NameStart.tokenIndex
    /\ nameCharIndex = NameStart.charIndex
    /\ nameCurrentTokenSpan = NameStart.currentTokenSpan
    /\ isDeleting = NameStart.isDeleting
    /\ nameTimers = NameStart.timers

\* function initNameAnimation(), the 'load' listener: nothing without the
\* display element, else the closure's start values,
\* nameDisplay.appendChild(cursor) and setTimeout(type, 500)
initNameAnimation(n) ==
    IF ~Has("hero-name-display") THEN n
    ELSE [n EXCEPT !.display = Append(WithoutCursor(@), createCursor),
                   !.tokenIndex = 0,
                   !.charIndex = 0,
                   !.currentTokenSpan = NULL,
                   !.isDeleting = FALSE,
                   !.timers = Append(@, "type")]

\* a pending timer of the name animation fires and runs type
TypeFires ==
    \E i \in 1..Len(nameTimers) :
        /\ NameBecomes(type([Name EXCEPT !.timers = RemoveAt(@, i)]))
        /\ UNCHANGED <<pageVars, readyState, menuVars, scrollVars,
                       activeElement, themeVars, contentVars, heroVars>>

-----------------------------------------------------------------------------
(***************************************************************************)
(* PAGE LIFE CYCLE                                                         *)
(***************************************************************************)
\* the DOMContentLoaded listeners: loadThemePreference, and
\* initializeWebsite, which sets the navbar state and the active link from
\* the scroll position
DOMContentLoaded ==
    /\ readyState = "loading"
    /\ readyState' = "interactive"
    /\ dataTheme' = loadThemePreference(localStorage)
    /\ navbarScrolled' = IF Has("navbar") THEN handleNavbarScroll(scrollY)
                         ELSE navbarScrolled
    /\ activeLinks' = IF Has("navbar")
                      THEN updateActiveNavLink(scrollY, activeLinks)
                      ELSE activeLinks
    /\ MenuBecomes(handleNavbarScrollErrors(Menu))
    /\ UNCHANGED <<scrollY, scrollPending, lastScrollTime, now,
                   progressWidth, backToTopVisible>>
    /\ UNCHANGED <<pageVars, activeElement, localStorage, contentVars,
                   heroVars, nameVars>>

\* the window's 'load' listeners: both animations start
WindowLoad ==
    /\ readyState = "interactive"
    /\ readyState' = "complete"
    /\ HeroBecomes(initHeroCodeAnimation(Hero))
    /\ NameBecomes(initNameAnimation(Name))
    /\ UNCHANGED <<pageVars, menuVars, scrollVars, activeElement, themeVars,
                   contentVars>>

\* the page is loaded again: the scripts run afresh on the same markup; the
\* storage, the clipboard, the windows opened and the clock are what is kept
Reload ==
    /\ readyState' = "loading"
    /\ MenuBecomes(MenuStart)
    /\ navbarScrolled' = FALSE
    /\ activeLinks' = {}
    /\ scrollY' = 0
    /\ scrollPending' = FALSE
    /\ lastScrollTime' = 0
    /\ progressWidth' = [num |-> 0, den |-> 0]
    /\ backToTopVisible' = FALSE
    /\ activeElement' = "body"
    /\ dataTheme' = htmlTheme
    /\ BlogBecomes(BlogStart)
    /\ ShareBecomes([ShareStart EXCEPT !.opened = openedWindow,
                                       !.clipboard = clipboard])
    /\ FormBecomes(FormStart)
    /\ HeroBecomes(HeroStart)
    /\ NameBecomes(NameStart)
    /\ UNCHANGED <<pageVars, now, localStorage>>

-----------------------------------------------------------------------------
(***************************************************************************)
(* SPECIFICATIONS                                                          *)
(***************************************************************************)
\* the page when its scripts have run, before DOMContentLoaded: the document
\* holds the elements E and can be scrolled by range px, its markup sets one
\* of themes on body and the storage holds one of stores
SiteInit(E, range, themes, stores) ==
    /\ elements = E
    /\ scrollMax = range
    /\ readyState = "loading"
    /\ NavInit
    /\ ThemeInit(themes, stores)
    /\ BlogInit
    /\ ShareInit
    /\ FormInit
    /\ HeroInit
    /\ NameInit
    /\ hamburgerClicks = 0
    /\ otherInput = FALSE
    /\ lastOp = [name |-> "none", arg |-> << >>]
    /\ lastToggled = NoValue
    /\ reloaded = FALSE

\* an action of the scripts, the observers of the run left alone
Quiet(A) == A /\ UNCHANGED observerVars

\* ---- the hero code animation alone, on a page without the name display
HeroPage == CoreElements \cup {"hero-code-display"}

InitHero == SiteInit(HeroPage, 0, {NoValue}, {{}})

NextHero ==
    \/ Quiet(DOMContentLoaded)
    \/ Quiet(WindowLoad)
    \/ Quiet(TypeNextCharFires)
    \/ Quiet(RestartAnimationFires)

SpecHero == InitHero /\ [][NextHero]_vars

\* ---- both typing animations, their timer callbacks interleaved
AnimPage == CoreElements \cup {"hero-code-display", "hero-name-display"}

InitAnim == SiteInit(AnimPage, 0, {NoValue}, {{}})

NextAnim ==
    \/ Quiet(DOMContentLoaded)
    \/ Quiet(WindowLoad)
    \/ Quiet(TypeNextCharFires)
    \/ Quiet(RestartAnimationFires)
    \/ Quiet(TypeFires)

SpecAnim == InitAnim /\ [][NextAnim]_vars

\* ---- the mobile menu: clicks and key presses on a page that scrolls as
\* far as its second section, every click on the hamburger counted
MenuPage == CoreElements \cup {"search"}

MenuPageScroll == 220

InitMenu == SiteInit(MenuPage, MenuPageScroll, {NoValue}, {{}})

\* the bound on the hamburger clicks an observed run counts
MaxClicks == 4

\* an input other than a click on the hamburger
OtherInput(A) ==
    /\ A
    /\ otherInput' = TRUE
    /\ UNCHANGED <<hamburgerClicks, lastOp, lastToggled, reloaded>>

NextMenu ==
    \/ /\ ClickHamburger
       /\ hamburgerClicks < MaxClicks
       /\ hamburgerClicks' = hamburgerClicks + 1
       /\ UNCHANGED <<otherInput, lastOp, lastToggled, reloaded>>
    \/ \E k \in 1..Len(NavLinks) : OtherInput(ClickNavLink(k))
    \/ \E target \in ClickTargets : OtherInput(ClickPage(target))
    \/ \E e \in KeyEvents : OtherInput(KeyDown(e))
    \/ \E y \in ScrollStops : Quiet(UserScroll(y))
    \/ Quiet(ScrollEvent)
    \/ Quiet(DOMContentLoaded)
    \/ Quiet(WindowLoad)

SpecMenu == InitMenu /\ [][NextMenu]_vars

\* ---- the theme preference across reloads of a page with a theme toggle
ThemePage == CoreElements \cup {"themeToggle"}

InitTheme == SiteInit(ThemePage, 0, HtmlThemes, StoredThemes)

NextTheme ==
    \/ \E target \in ClickTargets :
          /\ ClickThemeToggle(target)
          /\ lastToggled' = dataTheme'
          /\ reloaded' = FALSE
          /\ UNCHANGED <<hamburgerClicks, otherInput, lastOp>>
    \/ /\ Reload
       /\ reloaded' = TRUE
       /\ UNCHANGED <<hamburgerClicks, otherInput, lastOp, lastToggled>>
    \/ Quiet(DOMContentLoaded)
    \/ Quiet(WindowLoad)
    \/ Quiet(ClickHamburger)
    \/ \E target \in ClickTargets : Quiet(ClickPage(target))

SpecTheme == InitTheme /\ [][NextTheme]_vars

\* ---- pages that lack some of navbar, hamburger and navMenu
\* how far such a page scrolls
BarePageScroll == 220

BarePages == {E \cup {"search", "scrollProgress"} : E \in SUBSET CoreElements}

InitBare ==
    \E E \in BarePages : SiteInit(E, BarePageScroll, {NoValue}, {{}})

NextBare ==
    \/ Quiet(ClickHamburger)
    \/ \E k \in 1..Len(NavLinks) : Quiet(ClickNavLink(k))
    \/ \E target \in ClickTargets : Quiet(ClickPage(target))
    \/ \E e \in KeyEvents : Quiet(KeyDown(e))
    \/ \E y \in ScrollStops : Quiet(UserScroll(y))
    \/ Quiet(ScrollEvent)
    \/ Quiet(DOMContentLoaded)
    \/ Quiet(WindowLoad)

SpecBare == InitBare /\ [][NextBare]_vars

\* ---- a post page with share buttons
SharePage == CoreElements \cup {"share-buttons"}

InitShare == SiteInit(SharePage, 0, {NoValue}, {{}})

NextShare ==
    \/ \E platform \in ShareButtons : Quiet(ClickShare(platform))
    \/ \E fulfilled \in BOOLEAN : Quiet(WriteTextSettles(fulfilled))
    \/ \E kind \in {"slideOut", "hide"} : Quiet(NotificationTimerFires(kind))
    \/ Quiet(ClickHamburger)
    \/ Quiet(DOMContentLoaded)
    \/ Quiet(WindowLoad)

SpecShare == InitShare /\ [][NextShare]_vars

\* ---- a page that scrolls, with the clock running
\* how far the page scrolls
ScrollPageScroll == 420

ScrollPage == CoreElements \cup {"scrollProgress", "backToTop"}

InitScroll == SiteInit(ScrollPage, ScrollPageScroll, {NoValue}, {{}})

NextScroll ==
    \/ \E y \in ScrollStops : Quiet(UserScroll(y))
    \/ Quiet(ScrollEvent)
    \/ Quiet(Tick)
    \/ \E k \in 1..Len(NavLinks) : Quiet(ClickNavLink(k))
    \/ Quiet(ClickBackToTop)
    \/ Quiet(DOMContentLoaded)
    \/ Quiet(WindowLoad)

SpecScroll == InitScroll /\ [][NextScroll]_vars

\* ---- pages that scroll, with sections side by side or nested
InitSections ==
    \E E \in {ScrollPage, ScrollPage \cup {"nested-sections"}} :
        SiteInit(E, ScrollPageScroll, {NoValue}, {{}})

NextSections ==
    \/ \E y \in ScrollStops : Quiet(UserScroll(y))
    \/ Quiet(ScrollEvent)
    \/ \E k \in 1..Len(NavLinks) : Quiet(ClickNavLink(k))
    \/ Quiet(ClickHamburger)
    \/ Quiet(DOMContentLoaded)
    \/ Quiet(WindowLoad)

SpecSections == InitSections /\ [][NextSections]_vars

\* ---- the whole site: every handler, on the pages of the site
\* what another script of the origin has left in the storage
SiteStores == {{<<"visits", "1">>}}

\* how far the about page scrolls
AboutPageScroll == 420

\* the pages, each with the menu and the theme toggle: the home page with
\* the code animation, the one with the name animation, the blog with
\* search and filters, a post with share buttons, the contact page, and the
\* about page, which scrolls
SitePages ==
    { [elements |-> {"hero-code-display"}, range |-> 0],
      [elements |-> {"hero-name-display"}, range |-> 0],
      [elements |-> {"blogSearch", "clearSearch", "blog-grid", "blog-cards",
                     "filter-buttons"},
       range    |-> 0],
      [elements |-> {"share-buttons"}, range |-> 0],
      [elements |-> {"contact-form", "email", "message"}, range |-> 0],
      [elements |-> {"scrollProgress", "backToTop"},
       range    |-> AboutPageScroll] }

InitSite ==
    \E page \in SitePages :
        SiteInit(CoreElements \cup {"themeToggle"} \cup page.elements,
                 page.range, {NoValue}, SiteStores)

\* the queries typed into the search of the blog
SiteQueries == {<< >>, <<"a">>, <<"A", "b">>, <<"b", "a">>}

\* the values the contact form is submitted with
SiteEmails == {<<"a", "@", "b", ".", "c">>, <<"a", "@", "b">>}
SiteMessages == {Repeat("a", 9), Repeat("a", 10)}

NextSite ==
    \/ Quiet(ClickHamburger)
    \/ \E k \in 1..Len(NavLinks) : Quiet(ClickNavLink(k))
    \/ \E target \in ClickTargets : Quiet(ClickPage(target))
    \/ Quiet(ClickBackToTop)
    \/ \E e \in KeyEvents : Quiet(KeyDown(e))
    \/ \E y \in ScrollStops : Quiet(UserScroll(y))
    \/ Quiet(ScrollEvent)
    \/ \E target \in ClickTargets : Quiet(ClickThemeToggle(target))
    \/ \E q \in SiteQueries : Quiet(SearchInput(q))
    \/ Quiet(ClickClearSearch)
    \/ \E k \in 1..Len(FilterButtons) : Quiet(ClickFilter(k))
    \/ \E platform \in ShareButtons : Quiet(ClickShare(platform))
    \/ \E fulfilled \in BOOLEAN : Quiet(WriteTextSettles(fulfilled))
    \/ \E kind \in {"slideOut", "hide"} : Quiet(NotificationTimerFires(kind))
    \/ \E email \in SiteEmails, message \in SiteMessages, byClick \in BOOLEAN :
          Quiet(Submit(email, message, byClick))
    \/ Quiet(TypeNextCharFires)
    \/ Quiet(RestartAnimationFires)
    \/ Quiet(TypeFires)
    \/ Quiet(DOMContentLoaded)
    \/ Quiet(WindowLoad)

SpecSite == InitSite /\ [][NextSite]_vars

\* ---- the blog page: search and category filter, the last call recorded
BlogPage ==
    CoreElements \cup {"blogSearch", "clearSearch", "blog-grid", "blog-cards",
                       "filter-buttons"}

InitBlog == SiteInit(BlogPage, 0, {NoValue}, {{}})

\* action A is a call of operation name with argument arg
Call(A, name, arg) ==
    /\ A
    /\ lastOp' = [name |-> name, arg |-> arg]
    /\ UNCHANGED <<hamburgerClicks, otherInput, lastToggled, reloaded>>

NextBlog ==
    \/ \E q \in Queries : Call(SearchInput(q), "filterBlogPosts", q)
    \/ Call(ClickClearSearch, "filterBlogPosts", << >>)
    \/ \E k \in 1..Len(FilterButtons) :
          Call(ClickFilter(k), "filterByCategory", FilterButtons[k])
    \/ Quiet(ClickHamburger)
    \/ Quiet(DOMContentLoaded)
    \/ Quiet(WindowLoad)

SpecBlog == InitBlog /\ [][NextBlog]_vars

\* ---- the search of the blog on pages that have or lack the search
\* input, the clear button, the grid and the cards
SearchPages ==
    { CoreElements \cup E :
        E \in { {"blogSearch", "clearSearch", "blog-grid", "blog-cards",
                 "filter-buttons"},
                {"blogSearch", "clearSearch", "blog-grid"},
                {"blogSearch", "blog-grid", "blog-cards"},
                {"blogSearch", "clearSearch", "blog-cards"},
                {"blog-grid", "blog-cards", "filter-buttons", "clear-link"} } }

InitSearch == \E E \in SearchPages : SiteInit(E, 0, {NoValue}, {{}})

NextSearch ==
    \/ \E q \in Queries : Call(SearchInput(q), "filterBlogPosts", q)
    \/ Call(ClickClearSearch, "clearBlogSearch", << >>)
    \/ Call(ClickClearLink, "clearBlogSearch", << >>)
    \/ \E k \in 1..Len(FilterButtons) :
          Call(ClickFilter(k), "filterByCategory", FilterButtons[k])
    \/ Quiet(ClickHamburger)
    \/ Quiet(DOMContentLoaded)
    \/ Quiet(WindowLoad)

SpecSearch == InitSearch /\ [][NextSearch]_vars

\* the hero code animation alone, its timers eventually firing (a browser
\* runs every pending timeout)
SpecHeroFair == SpecHero /\ WF_vars(NextHero)

\* both animations, the page's load events and the name animation's
\* timeouts eventually happening (a browser runs every pending timeout)
SpecAnimFair ==
    /\ SpecAnim
    /\ WF_vars(Quiet(DOMContentLoaded))
    /\ WF_vars(Quiet(WindowLoad))
    /\ WF_vars(Quiet(TypeFires))

-----------------------------------------------------------------------------
(***************************************************************************)
(* PROPERTIES OF THE HERO CODE ANIMATION                                   *)
(***************************************************************************)
RECURSIVE Concat(_)
\* the concatenation of a sequence of sequences
Concat(ss) == IF ss = << >> THEN << >> ELSE Head(ss) \o Concat(Tail(ss))

IsPrefix(s, t) == Len(s) <= Len(t) /\ SubSeq(t, 1, Len(s)) = s

\* textContent of a child list of depth two (line divs holding spans)
TextContent(children) ==
    Concat([i \in 1..Len(children) |->
              children[i].text \o
              Concat([j \in 1..Len(children[i].children) |->
                        children[i].children[j].text])])

\* the full code text given by codeData
FullCodeText ==
    Concat([i \in 1..Len(codeData) |->
              Concat([j \in 1..Len(codeData[i]) |-> codeData[i][j].text])])

\* the spans a finished line of codeData is to show
LineSpans(lineData) ==
    [j \in 1..Len(lineData) |->
        Node("span", lineData[j].class, lineData[j].text, << >>)]

\* a pass of the animation is complete
HeroPassComplete == lineIndex >= Len(codeData)

\* the display shows codeData: one div per line, one span per token
DisplayShowsCode ==
    /\ Len(codeDisplay) = Len(codeData)
    /\ \A i \in 1..Len(codeDisplay) :
          /\ codeDisplay[i].tag = "div"
          /\ WithoutCursor(codeDisplay[i].children) = LineSpans(codeData[i])

\* the state restartAnimation leaves: only the cursor, all counters zero
HeroFresh ==
    /\ codeDisplay = <<createCursor>>
    /\ lineIndex = 0 /\ tokenIndex = 0 /\ charIndex = 0
    /\ currentLineElement = NULL /\ currentTokenSpan = NULL

\* C6: when a pass completes (lineIndex reaches codeData.length) the display
\* holds exactly one div per codeData line in order, an empty line's div
\* holding no token span, and every other div exactly one span per token, in
\* token order, with the token's class and full text (the cursor aside).
C6_PassShowsCode == HeroPassComplete => DisplayShowsCode

C6_Witness ==
    /\ lineIndex = Len(codeData)
    /\ Len(codeDisplay) = Len(codeData)
    /\ CursorPosition(codeDisplay[Len(codeDisplay)].children) # 0

\* C7: every typeNextChar callback, its synchronous re-entry included,
\* appends at most one character to the display, and the text of the display
\* is always a prefix of the full code text.
C7_CharByChar ==
    /\ [](IsPrefix(TextContent(codeDisplay), FullCodeText))
    /\ [][TypeNextCharFires =>
            /\ IsPrefix(TextContent(codeDisplay), TextContent(codeDisplay'))
            /\ Len(TextContent(codeDisplay')) <= Len(TextContent(codeDisplay)) + 1
         ]_vars

\* a callback that ended a token and, re-entered, typed the next one's
\* first character
C7_Witness ==
    /\ lineIndex = 0 /\ tokenIndex = 1 /\ charIndex = 1
    /\ Len(TextContent(codeDisplay)) = Len(codeData[1][1].text) + 1

\* C8: every pass completes, a completed pass is followed by
\* restartAnimation, which leaves only the cursor in the display, the three
\* counters at zero and no current line or span; the animation repeats for
\* ever and every completed pass shows the same content.
C8_RestartsFromZero ==
    /\ []<>HeroPassComplete
    /\ HeroPassComplete ~> HeroFresh
    /\ []<>(HeroFresh /\ heroTimers = <<"typeNextChar">>)
    /\ [][RestartAnimationFires => HeroFresh']_vars
    /\ [](HeroPassComplete => DisplayShowsCode)

\* a completed pass waiting for its restart
C8_Witness ==
    /\ HeroPassComplete
    /\ heroTimers = <<"restartAnimation">>
    /\ DisplayShowsCode

\* C9: each animation has at most one timeout pending at any time.
C9_OneTimerPerAnimation == Len(heroTimers) <= 1 /\ Len(nameTimers) <= 1

\* both chains alive after an empty line, a line change and the switch from
\* typing to deleting
C9_Witness ==
    /\ Len(heroTimers) = 1 /\ Len(nameTimers) = 1
    /\ lineIndex = 3 /\ currentLineElement # NULL
    /\ isDeleting

\* C10: no callback reads an undefined line or token: the line index stays
\* within 0..codeData.length, and whenever typeNextChar is about to read the
\* token at tokenIndex, 0 <= tokenIndex < length of the line and
\* 0 <= charIndex <= length of the token's text; an empty line is skipped
\* without a token read.
C10_IndicesInRange ==
    /\ ~heroFault
    /\ 0 <= lineIndex /\ lineIndex <= Len(codeData)
    /\ lineIndex < Len(codeData) =>
          LET lineData == codeData[lineIndex + 1]
          IN  \/ currentLineElement = NULL /\ Len(lineData) = 0
              \/ /\ 0 <= tokenIndex /\ tokenIndex < Len(lineData)
                 /\ 0 <= charIndex
                 /\ charIndex <= Len(lineData[tokenIndex + 1].text)

\* the callback is about to handle an empty line
C10_Witness ==
    /\ lineIndex = 2 /\ Len(codeData[lineIndex + 1]) = 0
    /\ heroTimers = <<"typeNextChar">>
    /\ Len(codeDisplay) = 2

-----------------------------------------------------------------------------
(***************************************************************************)
(* PROPERTIES OF THE MENU                                                  *)
(***************************************************************************)
\* C1: every click on the hamburger toggles 'active' exactly once, on the
\* hamburger and on navMenu alike (the document's listener, which sees the
\* same click, does not toggle again): as long as only the hamburger was
\* clicked, the menu is open iff the number of clicks is odd.
C1_HamburgerToggles ==
    ~otherInput =>
        /\ navMenuActive = (hamburgerClicks % 2 = 1)
        /\ hamburgerActive = navMenuActive

\* three clicks on the hamburger and nothing else: the menu is open
C1_Witness ==
    /\ ~otherInput
    /\ hamburgerClicks = 3
    /\ navMenuActive /\ hamburgerActive

-----------------------------------------------------------------------------
(***************************************************************************)
(* PROPERTIES OF THE THEME PREFERENCE                                      *)
(***************************************************************************)
\* C2: once loadThemePreference has run on DOMContentLoaded, body's
\* data-theme is the value stored under 'theme' if one is stored and 'dark'
\* otherwise; so after toggleTheme calls and a reload the theme shown is the
\* one the last toggle set.
C2_ThemeReapplied ==
    readyState # "loading" =>
        /\ dataTheme = IF getItem(localStorage, "theme") # NoValue
                       THEN getItem(localStorage, "theme")
                       ELSE "dark"
        /\ lastToggled # NoValue => dataTheme = lastToggled

\* a page whose markup says 'dark' shows 'light' after a reload, the theme
\* of the last toggle
C2_Witness ==
    /\ reloaded /\ readyState # "loading"
    /\ lastToggled = "light" /\ htmlTheme = "dark"
    /\ dataTheme = "light"

-----------------------------------------------------------------------------
(***************************************************************************)
(* PROPERTIES OF THE BLOG SEARCH AND THE CATEGORY FILTER                   *)
(***************************************************************************)
\* text q occurs in text t: t is some text, then q, then some text
Occurs(q, t) ==
    \E i \in 0..Len(t) :
        /\ i + Len(q) <= Len(t)
        /\ \A j \in 1..Len(q) : t[i + j] = q[j]

\* the text of a card's element as shown, '' for a missing element
ShownText(element) == IF element.present THEN element.textContent ELSE << >>

\* a text without the white space at its two ends
Stripped(t) ==
    LET inner == {i \in 1..Len(t) : ~IsWhiteSpace(t[i])}
    IN  IF inner = {} THEN << >>
        ELSE SubSeq(t, CHOOSE i \in inner : \A j \in inner : i <= j,
                       CHOOSE i \in inner : \A j \in inner : i >= j)

\* C4: after filterBlogPosts(q) a card is displayed iff the lower-cased,
\* trimmed q is a substring of the card's lower-cased title, excerpt or
\* category text (a missing one counting as the empty text), every card is
\* displayed when the trimmed q is empty, and every other card has display
\* 'none'.
C4_SearchIsSubstringMatch ==
    lastOp.name = "filterBlogPosts" =>
        LET q == Stripped(toLowerCase(lastOp.arg))
        IN  \A i \in 1..Len(BlogCards) :
              LET card == BlogCards[i]
                  hit  == \/ Occurs(q, toLowerCase(ShownText(card.title)))
                          \/ Occurs(q, toLowerCase(ShownText(card.excerpt)))
                          \/ Occurs(q, toLowerCase(ShownText(card.category)))
              IN  /\ cardDisplay[i] \in {"", "none"}
                  /\ cardDisplay[i] = "" <=> (hit \/ q = << >>)

\* the search for " A" shows the first card and the second and hides the third
C4_Witness ==
    /\ lastOp = [name |-> "filterBlogPosts", arg |-> <<" ", "A">>]
    /\ cardDisplay = <<"", "", "none">>

\* C5 as stated: after filterByCategory(c), c other than 'all', a card is
\* displayed iff c is a substring of the card's visible category text (the
\* text without the white space around it).
C5_FilterIsSubstringMatch ==
    (lastOp.name = "filterByCategory" /\ lastOp.arg # All) =>
        \A i \in 1..Len(BlogCards) :
            cardDisplay[i] = "" <=>
                Occurs(lastOp.arg, Stripped(ShownText(BlogCards[i].category)))

\* C5 as the code has it: after filterByCategory(c), c other than 'all', a
\* card is displayed iff c equals the card's category text with the white
\* space at its ends removed (the empty text for a card without a category
\* element), every other card having display 'none'; after
\* filterByCategory('all') every card is displayed.
C5_FilterIsExactMatch ==
    lastOp.name = "filterByCategory" =>
        \A i \in 1..Len(BlogCards) :
            /\ cardDisplay[i] \in {"", "none"}
            /\ cardDisplay[i] = "" <=>
                  \/ lastOp.arg = All
                  \/ lastOp.arg = Stripped(ShownText(BlogCards[i].category))

\* the filter for "a" shows the card of category " a " and hides the card
\* of category "ab"
C5_Witness ==
    /\ lastOp = [name |-> "filterByCategory", arg |-> <<"a">>]
    /\ cardDisplay = <<"", "none", "none">>

-----------------------------------------------------------------------------
(***************************************************************************)
(* PROPERTIES OF THE STORAGE                                               *)
(***************************************************************************)
\* the entries of a storage under keys other than 'theme'
OtherKeys(store) == {kv \in store : kv[1] # "theme"}

\* the step is a click on the theme toggle, the one caller of toggleTheme
ToggleThemeStep == \E target \in ClickTargets : ClickThemeToggle(target)

\* C3: the storage changes in no step but a call of toggleTheme, and there
\* only under the key 'theme': the menu, scroll, smooth-scroll, search,
\* category filter, share and copy, form validation and animation handlers
\* leave the storage as it is.
C3_OnlyToggleThemeWrites ==
    [][/\ localStorage' # localStorage => ToggleThemeStep
       /\ OtherKeys(localStorage') = OtherKeys(localStorage)]_vars

\* the theme has been toggled twice and stored beside the other key, and
\* handlers of other kinds have run: the menu is open and the form has
\* been refused
C3_Witness ==
    /\ localStorage = {<<"theme", "dark">>, <<"visits", "1">>}
    /\ navMenuActive
    /\ lastSubmit = "prevented"

-----------------------------------------------------------------------------
(***************************************************************************)
(* PROPERTIES OF THE HANDLERS ON PAGES WITH MISSING ELEMENTS               *)
(***************************************************************************)
\* C11 as stated: whatever element is absent from the page, every handler
\* and initialiser returns without throwing: no TypeError ever escapes from
\* a listener, and no callback of the code animation faults.
C11_NoHandlerThrows == errorEvents = {} /\ ~heroFault

-----------------------------------------------------------------------------
(***************************************************************************)
(* PROPERTIES OF THE COPY OF THE LINK                                      *)
(***************************************************************************)
\* the step in which a writeText promise is rejected
WriteRejectedStep == WriteTextSettles(FALSE)

\* C12: the notification exists only when a write has been fulfilled and
\* then reads 'Link copied to clipboard!'; a rejected write logs 'Failed to
\* copy:', leaves the notification and its timeouts as they are and starts
\* no other write; the console holds nothing but that log and no error
\* leaves a listener.
C12_CopyFailureIsLogged ==
    /\ [](notification.present =>
            /\ clipboard = "location.href"
            /\ notification.textContent = "Link copied to clipboard!")
    /\ [](console \subseteq {"Failed to copy:"} /\ errorEvents = {})
    /\ [][WriteRejectedStep =>
            /\ "Failed to copy:" \in console'
            /\ notification' = notification
            /\ slideOutTimers' = slideOutTimers /\ hideTimers' = hideTimers
            /\ clipboard' = clipboard
            /\ clipboardPending' = clipboardPending - 1]_vars

\* a write was rejected and logged, none was fulfilled, none is pending and
\* there is no notification
C12_Witness ==
    /\ console = {"Failed to copy:"}
    /\ clipboardPending = 0
    /\ clipboard = NoValue
    /\ ~notification.present

-----------------------------------------------------------------------------
(***************************************************************************)
(* PROPERTIES OF THE TWO ANIMATIONS TOGETHER                               *)
(***************************************************************************)
\* the callback the code animation runs next when it runs alone: the one
\* its pending timeout names
HeroAloneStep(h) ==
    IF h.timers = << >> THEN h
    ELSE IF Head(h.timers) = "typeNextChar"
    THEN typeNextChar([h EXCEPT !.timers = Tail(@)])
    ELSE restartAnimation([h EXCEPT !.timers = Tail(@)])

\* the callback the name animation runs next when it runs alone
NameAloneStep(n) ==
    IF n.timers = << >> THEN n ELSE type([n EXCEPT !.timers = Tail(@)])

\* C13: the two animations start from their own initial states, and in
\* every interleaving of the callbacks a step that changes the state or the
\* display of one animation is the step that animation makes alone from
\* that state and leaves the state and the display of the other as they
\* are: each goes through the sequence of states it goes through alone.
C13_ClosuresAreIndependent ==
    [][IF readyState' # readyState
       THEN readyState' = "complete" =>
              /\ Hero' = initHeroCodeAnimation(HeroStart)
              /\ Name' = initNameAnimation(NameStart)
       ELSE /\ Hero' # Hero => Name' = Name /\ Hero' = HeroAloneStep(Hero)
            /\ Name' # Name => Hero' = Hero /\ Name' = NameAloneStep(Name)]_vars

\* both animations are under way, the code animation in its second line
\* and the name animation in its second token
C13_Witness ==
    /\ lineIndex = 1 /\ tokenIndex = 1
    /\ nameTokenIndex = 1 /\ nameCharIndex = 2 /\ ~isDeleting

-----------------------------------------------------------------------------
(***************************************************************************)
(* PROPERTIES OF THE MOBILE MENU                                           *)
(***************************************************************************)
\* C14: whatever hamburger clicks, outside clicks, nav-link clicks and key
\* presses came, from the closed menu with body overflow '', the body's
\* overflow is 'hidden' iff navMenu has class 'active', and '' otherwise.
C14_OverflowHiddenIffOpen ==
    /\ bodyOverflow \in {"", "hidden"}
    /\ bodyOverflow = "hidden" <=> navMenuActive

\* the menu is open, with the body's overflow hidden, after it was opened,
\* closed by another input and opened again
C14_Witness ==
    /\ navMenuActive /\ bodyOverflow = "hidden"
    /\ hamburgerClicks = 2 /\ otherInput

Escape == [key |-> "Escape", ctrlKey |-> FALSE, metaKey |-> FALSE]

\* C15: a click outside the menu, a click on a nav link and the Escape key
\* leave the menu closed, whether it was open or closed; a click inside
\* navMenu on no link leaves the menu as it is, and a click on the
\* hamburger toggles it and is not undone as an outside click.
C15_OnlyEverClose ==
    [][/\ ClickPage(Elsewhere) => ~navMenuActive'
       /\ (\E k \in 1..Len(NavLinks) : ClickNavLink(k)) => ~navMenuActive'
       /\ KeyDown(Escape) => ~navMenuActive'
       /\ ClickPage(InsideMenu) => navMenuActive' = navMenuActive
       /\ ClickHamburger => navMenuActive' = ~navMenuActive]_vars

\* the menu was opened by the one click on the hamburger and is closed:
\* another input has closed it
C15_Witness ==
    /\ hamburgerClicks = 1 /\ otherInput
    /\ ~navMenuActive /\ ~hamburgerActive

-----------------------------------------------------------------------------
(***************************************************************************)
(* PROPERTIES OF THE SCROLL EFFECTS                                        *)
(***************************************************************************)
\* C16 as stated: when every scroll event has been handled (none is
\* pending), the navbar has class 'scrolled' iff window.scrollY > 100.
C16_ScrolledIffPast100 ==
    ~scrollPending => (navbarScrolled <=> scrollY > 100)

\* C17: a scroll event runs handleNavbarScroll, and sets lastScrollTime to
\* the time of the event, when at least 100 ms have passed since the run
\* the listener last triggered, and otherwise leaves the navbar's class and
\* lastScrollTime as they are; lastScrollTime changes in no other step, so
\* two runs the listener triggers are at least 100 ms apart.
C17_ThrottledTo100ms ==
    [][/\ ScrollEvent =>
            IF now - lastScrollTime >= 100
            THEN /\ navbarScrolled' = (scrollY > 100)
                 /\ lastScrollTime' = now
            ELSE /\ navbarScrolled' = navbarScrolled
                 /\ lastScrollTime' = lastScrollTime
       /\ lastScrollTime' # lastScrollTime =>
            /\ ScrollEvent
            /\ lastScrollTime' - lastScrollTime >= 100]_vars

\* the listener has run handleNavbarScroll a second time, 100 ms after the
\* first, and an event in between was passed over
C17_Witness ==
    /\ lastScrollTime = PageLoadTime + 2 * TickMs
    /\ now = lastScrollTime
    /\ navbarScrolled /\ scrollY > 100 /\ ~scrollPending

\* the sections that contain the position scrollY + 200
Containing(y) ==
    {i \in 1..Len(Sections) :
        /\ y + 200 >= Sections[i].offsetTop
        /\ y + 200 < Sections[i].offsetTop + Sections[i].offsetHeight}

\* the nav links whose href is '#' and the id of section i
LinksTo(i) ==
    {k \in 1..Len(NavLinks) : NavLinks[k].hash /\ NavLinks[k].id = Sections[i].id}

Last(S) == CHOOSE i \in S : \A j \in S : j <= i
First(S) == CHOOSE i \in S : \A j \in S : i <= j

\* the step calls updateActiveNavLink: a scroll event, or initializeWebsite
UpdateActiveNavLinkStep == ScrollEvent \/ DOMContentLoaded

\* C18 as stated: when the position lies inside a section that has a nav
\* link, that link (of the last such section) is the only active link after
\* the call; when no section contains the position the active links stay;
\* and at most one link is ever active.
C18_LinkedSectionWins ==
    /\ [](Cardinality(activeLinks) <= 1)
    /\ [][UpdateActiveNavLinkStep =>
            LET linked == {i \in Containing(scrollY) : LinksTo(i) # {}}
            IN  /\ linked # {} => activeLinks' = {First(LinksTo(Last(linked)))}
                /\ Containing(scrollY) = {} => activeLinks' = activeLinks]_vars

\* C18 as the code has it: the last section in document order that
\* contains scrollY + 200 decides: after the call its first nav link is the
\* only active one when it has a link, and no link is active when it has
\* none; when no section contains the position the active links stay; and
\* at most one link is ever active.
C18_LastSectionDecides ==
    /\ [](Cardinality(activeLinks) <= 1)
    /\ [][UpdateActiveNavLinkStep =>
            IF Containing(scrollY) = {} THEN activeLinks' = activeLinks
            ELSE LET links == LinksTo(Last(Containing(scrollY)))
                 IN  activeLinks' = IF links = {} THEN {} ELSE {First(links)}]_vars

\* on the loaded page with nested sections the window is at 'about', inside
\* the linkless 'contact', the event is handled and no link is active
C18_Witness ==
    /\ Has("nested-sections")
    /\ readyState = "complete"
    /\ scrollY = 220 /\ ~scrollPending
    /\ activeLinks = {}

-----------------------------------------------------------------------------
(***************************************************************************)
(* PROPERTIES OF THE NAME ANIMATION                                        *)
(***************************************************************************)
\* the display with the whole name typed: a span per token of nameData with
\* the token's text and class, then the cursor
FullNameDisplay ==
    << Node("span", "", <<"P", "r", "a", "s", "a", "d", " ">>, << >>),
       Node("span", "gradient-text", <<"S", "w", "a", "i", "n">>, << >>),
       createCursor >>

\* C19: when the typing phase has ended (tokenIndex has reached
\* nameData.length and the deletion has not begun) the name display holds
\* exactly the span 'Prasad ' without class, the span 'Swain' with class
\* 'gradient-text' and then the cursor as last child.
C19_TypedNameIsPrasadSwain ==
    (nameTokenIndex = Len(nameData) /\ ~isDeleting) =>
        nameDisplay = FullNameDisplay

\* the typing phase has just ended: the callback that will begin the pause
\* is pending
C19_Witness ==
    /\ nameTokenIndex = Len(nameData) /\ ~isDeleting
    /\ Len(nameTimers) = 1
    /\ Len(nameDisplay) = 3

\* a step that is a type() callback of the name animation
TypeStep == TypeFires

\* the next type() callback would take the "Safety reset" branch
SafetyResetNext ==
    /\ nameTokenIndex >= Len(nameData)
    /\ isDeleting
    /\ TokenSpans(nameDisplay) = {}

\* C20: the name animation never stalls and cycles forever: every type()
\* callback leaves exactly one callback pending in place of itself,
\* isDeleting is true only while tokenIndex = nameData.length, the "Safety
\* reset" branch is never the one a callback takes, and the display holds
\* the full name infinitely often and no token span infinitely often.
C20_NameAnimationCycles ==
    /\ [][TypeStep => /\ Len(nameTimers) = 1
                      /\ nameTimers' = <<"type">>]_vars
    /\ [](isDeleting => nameTokenIndex = Len(nameData))
    /\ [](~SafetyResetNext)
    /\ []<>(nameDisplay = FullNameDisplay)
    /\ []<>(readyState = "complete" /\ TokenSpans(nameDisplay) = {})

\* the deletion has reached the last span, now empty: the next callback
\* removes it and resets the closure
C20_Witness ==
    /\ isDeleting
    /\ nameTokenIndex = Len(nameData)
    /\ Cardinality(TokenSpans(nameDisplay)) = 1
    /\ nameDisplay[1].text = << >>

-----------------------------------------------------------------------------
(***************************************************************************)
(* PROPERTIES OF THE BLOG SEARCH                                           *)
(***************************************************************************)
\* the cards of the page that are displayed
DisplayedCards == {i \in 1..Len(blogCards) : cardDisplay[i] # "none"}

\* the last operation ran filterBlogPosts: a search, or a clearBlogSearch
\* that found the search input
FilterBlogPostsRan ==
    \/ lastOp.name = "filterBlogPosts"
    \/ lastOp.name = "clearBlogSearch" /\ Has("blogSearch")

\* C21: after every filterBlogPosts call on a page with a blog grid the
\* 'no results' message is in the grid iff no card is displayed, and the
\* document never holds more than one such message.
C21_MessageIffNoCardShown ==
    /\ noResultsCount <= 1
    /\ (Has("blog-grid") /\ FilterBlogPostsRan) =>
            (noResultsCount = 1 <=> DisplayedCards = {})

\* a search that no card of the page matches: every card hidden, the
\* message in the grid
C21_Witness ==
    /\ lastOp.name = "filterBlogPosts"
    /\ Has("blog-grid") /\ Has("blog-cards")
    /\ DisplayedCards = {}
    /\ noResultsCount = 1

\* C22: after clearBlogSearch on a page with the search input the input is
\* empty, every card is displayed and, with at least one card, no 'no
\* results' message is present; on a page without the search input the call
\* changes neither the display of a card nor the message.
C22_ClearShowsEveryPost ==
    /\ []((lastOp.name = "clearBlogSearch" /\ Has("blogSearch")) =>
            /\ searchValue = << >>
            /\ \A i \in 1..Len(blogCards) : cardDisplay[i] = ""
            /\ Len(blogCards) >= 1 => noResultsCount = 0)
    /\ [][(ClickClearLink /\ ~Has("blogSearch")) =>
            UNCHANGED <<cardDisplay, noResultsCount>>]_vars

\* on the page without clear button the search is cleared through the link
\* of the message, so after a search that had hidden every card
C22_Witness ==
    /\ lastOp.name = "clearBlogSearch"
    /\ Has("blogSearch") /\ ~Has("clearSearch") /\ Has("blog-cards")
    /\ searchValue = << >>
    /\ DisplayedCards = 1..Len(BlogCards)
    /\ noResultsCount = 0

=============================================================================
